---- MODULE Spec2Model ----
(***************************************************************************)
(* A model of the IR node hierarchy (loki/ir.py), the visitor and          *)
(* transformer framework (ecir/visitors.py) and the expression equality    *)
(* rules (loki/expression.py).                                             *)
(*                                                                         *)
(* Python values are tagged records, so that values of different Python    *)
(* types are never equal:                                                  *)
(*   [atom |-> s]    None, False, True                                     *)
(*   [expr |-> s]    an Expression instance (opaque to the IR)             *)
(*   [str |-> s]     a str: a name of the IR, or where its characters      *)
(*                   matter (expression equality) their sequence           *)
(*   [tuple |-> q]   a tuple          [list |-> q]   a list                *)
(*   [dict |-> s]    a dict           [table |-> i]  a TypeTable           *)
(*   [cls, id, args, f]  a Node: its class, its object identity, its       *)
(*                   stored constructor arguments (_args) and its fields   *)
(* An object identity is [obj, gen]: gen 0 for an object the caller built, *)
(* gen + 1 for the new object a rebuild makes from the stored arguments of *)
(* the object [obj, gen].  A rebuilt node is thus never one of the nodes   *)
(* it was built from, and shows which node's recipe it was built with.     *)
(*   [raise |-> s]   an exception leaving the call                         *)
(*   [is |-> "Literal", value, kind, type]    a Literal                    *)
(*   [is |-> "RangeIndex", lower, upper, step]  a RangeIndex               *)
(*   [is |-> "Variable", name, type, shape, dimensions, ref, initial]      *)
(*                   a Variable                                            *)
(***************************************************************************)
EXTENDS Integers, Sequences, FiniteSets, TLC

VARIABLES
  tree,     \* the IR under construction: a tuple of nodes
  nextId,   \* the number of the next object the caller builds
  node,     \* the node the last constructor call made, or what it raised
  op,       \* the last operation run
  mapper,   \* the mapping given to the last transformer
  match,    \* the class given to the last FindNodes
  result,   \* what the last operation returned or raised
  passed,   \* the arguments of the last constructor call or in-place edit
  written,  \* the objects the last pass assigned to or updated
  self_rebuilt, \* self.rebuilt of the last transformer
  left,     \* the left operand of the last comparison
  right,    \* its right operand
  answer,   \* what left == right gave
  tables,   \* the symbol tables: of each scope, its entries and its parent
  query,    \* the name last looked up, as its segments
  entry,    \* what the lookup gave
  callee,   \* the CallContext whose arg_iter was last called
  callsite, \* the CallStatement it was called with
  pairs,    \* what iterating over the result yielded, and how it ended
  file,     \* the FortranSourceFile last read
  text,     \* its regenerated source
  visitor,  \* the read-only visitor in use: the handlers its class adds, its _handlers
  dispatched, \* the last visit: its visitee, what it gave, the handlers it called
  held,     \* the Variable a caller holds: as it was made, as it is now
  reads     \* what the reads of its children gave, in order

irVars == <<tree, nextId, node, op, mapper, match, result, passed, written, self_rebuilt>>
exprVars == <<left, right, answer>>
typeVars == <<tables, query, entry>>
callVars == <<callee, callsite, pairs>>
fileVars == <<file, text>>
visitVars == <<visitor, dispatched>>
readVars == <<held, reads>>
vars == <<irVars, exprVars, typeVars, callVars, fileVars, visitVars, readVars>>
nonIrVars == <<exprVars, typeVars, callVars, fileVars, visitVars, readVars>>
nonExprVars == <<irVars, typeVars, callVars, fileVars, visitVars, readVars>>
nonTypeVars == <<irVars, exprVars, callVars, fileVars, visitVars, readVars>>
nonCallVars == <<irVars, exprVars, typeVars, fileVars, visitVars, readVars>>
nonFileVars == <<irVars, exprVars, typeVars, callVars, visitVars, readVars>>
nonVisitVars == <<irVars, exprVars, typeVars, callVars, fileVars, readVars>>
nonReadVars == <<irVars, exprVars, typeVars, callVars, fileVars, visitVars>>

----------------------------------------------------------------------------
(* Python values *)

None == [atom |-> "None"]
PyFalse == [atom |-> "False"]
PyTrue == [atom |-> "True"]
Expr(s) == [expr |-> s]
Str(s) == [str |-> s]
Tup(q) == [tuple |-> q]
Lst(q) == [list |-> q]
Raise(s) == [raise |-> s]

IsExpression(v) == "expr" \in DOMAIN v
IsStr(v) == "str" \in DOMAIN v
IsTuple(v) == "tuple" \in DOMAIN v
IsList(v) == "list" \in DOMAIN v
IsDict(v) == "dict" \in DOMAIN v
IsNode(v) == "cls" \in DOMAIN v
IsRaise(v) == "raise" \in DOMAIN v

\* The elements of a tuple or a list.
Items(v) == IF IsTuple(v) THEN v.tuple ELSE v.list

\* Python truth value, as `x or y` and `x if x else y` test it.
Truthy(v) ==
  IF v \in {None, PyFalse} THEN FALSE
  ELSE IF IsTuple(v) \/ IsList(v) THEN Len(Items(v)) > 0
  ELSE TRUE

\* loki.tools.is_iterable: iter(o) succeeds.
is_iterable(v) == IsTuple(v) \/ IsList(v) \/ IsStr(v) \/ IsDict(v)

\* loki.tools.as_tuple: None gives (), a str or a non-iterable gives a
\* one-element tuple, an iterable gives the tuple of its items.
as_tuple(v) ==
  IF v = None THEN Tup(<<>>)
  ELSE IF IsTuple(v) \/ IsList(v) THEN Tup(Items(v))
  ELSE Tup(<<v>>)

\* all(isinstance(x, Expression) for x in v); the items of a str are strs.
AllExpressions(v) ==
  IF IsStr(v) THEN Len(v.str) = 0
  ELSE \A i \in 1..Len(Items(v)) : IsExpression(Items(v)[i])

Min(a, b) == IF a < b THEN a ELSE b

\* dict(zip(names, values))
ZipDict(names, values) ==
  LET n == Min(Len(names), Len(values))
  IN [k \in {names[i] : i \in 1..n} |->
        values[CHOOSE i \in 1..n : names[i] = k]]

\* d.update(e): the entries of e win.
Update(d, e) == e @@ d

\* The names of a sequence of names that are not keys of kwargs.
RECURSIVE NotIn(_, _)
NotIn(names, kwargs) ==
  IF names = <<>> THEN <<>>
  ELSE (IF Head(names) \notin DOMAIN kwargs THEN <<Head(names)>> ELSE <<>>)
         \o NotIn(Tail(names), kwargs)

----------------------------------------------------------------------------
(* The node classes: __init__ argument names (inspect.getfullargspec,      *)
(* without self), the defaults of the signature, _traversable.             *)

Classes ==
  {"Loop", "WhileLoop", "Conditional", "MultiConditional", "Statement",
   "MaskedStatement", "Section", "Scope", "Declaration", "DataDeclaration",
   "Import", "Interface", "Allocation", "Deallocation", "Nullify",
   "CallStatement", "TypeDef", "Comment"}

ArgNames(cls) ==
  CASE cls = "Loop" -> <<"variable", "body", "bounds", "pragma", "pragma_post",
                         "loop_label", "name", "has_end_do">>
    [] cls = "WhileLoop" -> <<"condition", "body", "pragma", "pragma_post",
                              "loop_label", "name", "has_end_do">>
    [] cls = "Conditional" -> <<"conditions", "bodies", "else_body", "inline", "name">>
    [] cls = "MultiConditional" -> <<"expr", "values", "bodies", "else_body", "name">>
    [] cls = "Statement" -> <<"target", "expr", "ptr", "comment">>
    [] cls = "MaskedStatement" -> <<"condition", "body", "default">>
    [] cls = "Section" -> <<"body">>
    [] cls = "Scope" -> <<"body", "associations">>
    [] cls = "Declaration" -> <<"variables", "dimensions", "external", "comment", "pragma">>
    [] cls = "DataDeclaration" -> <<"variable", "values">>
    [] cls = "Import" -> <<"module", "symbols", "c_import", "f_include">>
    [] cls = "Interface" -> <<"spec", "body">>
    [] cls = "Allocation" -> <<"variables", "data_source">>
    [] cls = "Deallocation" -> <<"variables">>
    [] cls = "Nullify" -> <<"variables">>
    [] cls = "CallStatement" -> <<"name", "arguments", "kwarguments", "context", "pragma">>
    [] cls = "TypeDef" -> <<"name", "body", "bind_c", "symbols">>
    [] cls = "Comment" -> <<"text">>

\* The arguments of Node.__init__, which every class takes through **kwargs.
NodeKwargs == {"source", "label"}

Defaults(cls) ==
  [source |-> None, label |-> None] @@
  CASE cls = "Loop" -> [body |-> None, bounds |-> None, pragma |-> None,
                        pragma_post |-> None, loop_label |-> None, name |-> None,
                        has_end_do |-> None]
    [] cls = "WhileLoop" -> [body |-> None, pragma |-> None, pragma_post |-> None,
                             loop_label |-> None, name |-> None, has_end_do |-> None]
    [] cls = "Conditional" -> [inline |-> PyFalse, name |-> None]
    [] cls = "MultiConditional" -> [name |-> None]
    [] cls = "Statement" -> [ptr |-> PyFalse, comment |-> None]
    [] cls = "Section" -> [body |-> None]
    [] cls = "Scope" -> [body |-> None, associations |-> None]
    [] cls = "Declaration" -> [dimensions |-> None, external |-> PyFalse,
                               comment |-> None, pragma |-> None]
    [] cls = "Import" -> [symbols |-> None, c_import |-> PyFalse, f_include |-> PyFalse]
    [] cls = "Interface" -> [spec |-> None, body |-> None]
    [] cls = "Allocation" -> [data_source |-> None]
    [] cls = "CallStatement" -> [kwarguments |-> None, context |-> None, pragma |-> None]
    [] cls = "TypeDef" -> [bind_c |-> PyFalse, symbols |-> None]
    [] cls = "Comment" -> [text |-> None]
    [] OTHER -> <<>>

Traversable(cls) ==
  CASE cls = "Loop" -> <<"variable", "bounds", "body">>
    [] cls = "WhileLoop" -> <<"condition", "body">>
    [] cls = "Conditional" -> <<"conditions", "bodies", "else_body">>
    [] cls = "MultiConditional" -> <<"expr", "values", "bodies", "else_body">>
    [] cls = "Statement" -> <<"target", "expr">>
    [] cls = "MaskedStatement" -> <<"condition", "body", "default">>
    [] cls \in {"Section", "Scope", "Interface", "TypeDef"} -> <<"body">>
    [] cls = "Declaration" -> <<"variables", "dimensions">>
    [] cls = "DataDeclaration" -> <<"variable", "values">>
    [] cls \in {"Allocation", "Deallocation", "Nullify"} -> <<"variables">>
    [] cls = "CallStatement" -> <<"arguments", "kwarguments">>
    [] OTHER -> <<>>

----------------------------------------------------------------------------
(* The constructors.  `a` holds the arguments as __init__ sees them: the   *)
(* caller's, and the signature's default for each one not given.  Each     *)
(* gives the fields of the new node, or the exception it raises.           *)

AssertionError == Raise("AssertionError")

\* Node.__init__
NodeFields(a) == [source |-> a.source, label |-> a.label]

\* len(x) of a tuple or list
PyLen(v) == IF IsStr(v) THEN Len(v.str) ELSE Len(Items(v))

IsSeqValue(v) == IsTuple(v) \/ IsList(v)

\* loki.tools.flatten: the leaves of nested tuples and lists, in order.
RECURSIVE FlattenSeq(_)
FlattenSeq(q) ==
  IF q = <<>> THEN <<>>
  ELSE (IF IsSeqValue(Head(q)) THEN FlattenSeq(Items(Head(q))) ELSE <<Head(q)>>)
       \o FlattenSeq(Tail(q))

Loop_init(a) ==
  IF /\ IsExpression(a.variable)
     /\ IsExpression(a.bounds)
     /\ is_iterable(a.body)
  THEN [variable |-> a.variable, body |-> as_tuple(a.body), bounds |-> a.bounds,
        pragma |-> a.pragma, pragma_post |-> a.pragma_post,
        loop_label |-> a.loop_label, name |-> a.name,
        has_end_do |-> IF a.has_end_do # None THEN a.has_end_do ELSE PyTrue]
       @@ NodeFields(a)
  ELSE AssertionError

WhileLoop_init(a) ==
  IF IsExpression(a.condition) \/ a.condition = None
  THEN [condition |-> a.condition, body |-> as_tuple(a.body),
        pragma |-> a.pragma, pragma_post |-> a.pragma_post,
        loop_label |-> a.loop_label, name |-> a.name,
        has_end_do |-> IF a.has_end_do # None THEN a.has_end_do ELSE PyTrue]
       @@ NodeFields(a)
  ELSE AssertionError

Conditional_init(a) ==
  IF /\ is_iterable(a.conditions) /\ AllExpressions(a.conditions)
     /\ is_iterable(a.bodies) /\ PyLen(a.bodies) = PyLen(a.conditions)
  THEN [conditions |-> as_tuple(a.conditions), bodies |-> as_tuple(a.bodies),
        else_body |-> as_tuple(a.else_body), inline |-> a.inline, name |-> a.name]
       @@ NodeFields(a)
  ELSE AssertionError

MultiConditional_init(a) ==
  IF /\ IsExpression(a.expr)
     /\ IsSeqValue(a.values)
     /\ \A i \in 1..Len(FlattenSeq(Items(a.values))) :
           IsExpression(FlattenSeq(Items(a.values))[i])
     /\ is_iterable(a.bodies)
     /\ is_iterable(a.else_body)
  THEN [expr |-> a.expr, values |-> as_tuple(a.values), bodies |-> as_tuple(a.bodies),
        else_body |-> as_tuple(a.else_body), name |-> a.name]
       @@ NodeFields(a)
  ELSE AssertionError

Statement_init(a) ==
  IF IsExpression(a.target) /\ IsExpression(a.expr)
  THEN [target |-> a.target, expr |-> a.expr, ptr |-> a.ptr, comment |-> a.comment]
       @@ NodeFields(a)
  ELSE AssertionError

MaskedStatement_init(a) ==
  IF IsExpression(a.condition) /\ is_iterable(a.body) /\ is_iterable(a.default)
  THEN [condition |-> a.condition, body |-> as_tuple(a.body),
        default |-> as_tuple(a.default)]
       @@ NodeFields(a)
  ELSE AssertionError

Section_init(a) == [body |-> as_tuple(a.body)] @@ NodeFields(a)

Scope_init(a) ==
  IF IsDict(a.associations) \/ a.associations = None
  THEN [associations |-> a.associations] @@ Section_init(a)
  ELSE AssertionError

Declaration_init(a) ==
  IF /\ IsSeqValue(a.variables) /\ AllExpressions(a.variables)
     /\ \/ a.dimensions = None
        \/ IsSeqValue(a.dimensions) /\ AllExpressions(a.dimensions)
  THEN [variables |-> as_tuple(a.variables),
        dimensions |-> IF Truthy(a.dimensions) THEN as_tuple(a.dimensions) ELSE None,
        external |-> a.external, comment |-> a.comment, pragma |-> a.pragma]
       @@ NodeFields(a)
  ELSE AssertionError

DataDeclaration_init(a) ==
  IF /\ IsExpression(a.variable) \/ IsStr(a.variable) \/ IsTuple(a.variable)
     /\ IsSeqValue(a.values) /\ AllExpressions(a.values)
  THEN [variable |-> a.variable, values |-> as_tuple(a.values)] @@ NodeFields(a)
  ELSE AssertionError

Import_fields(a) ==
  [module |-> a.module,
   symbols |-> IF Truthy(a.symbols) THEN a.symbols ELSE Tup(<<>>),
   c_import |-> a.c_import, f_include |-> a.f_include]
  @@ NodeFields(a)

Import_init(a) ==
  IF Truthy(a.c_import) /\ Truthy(a.f_include)
  THEN Raise("ValueError")
  ELSE Import_fields(a)

Interface_init(a) ==
  IF is_iterable(a.body)
  THEN [spec |-> a.spec, body |-> as_tuple(a.body)] @@ NodeFields(a)
  ELSE AssertionError

Allocation_init(a) ==
  IF IsSeqValue(a.variables) /\ AllExpressions(a.variables)
  THEN [variables |-> as_tuple(a.variables), data_source |-> a.data_source]
       @@ NodeFields(a)
  ELSE AssertionError

Deallocation_init(a) ==
  IF IsSeqValue(a.variables) /\ AllExpressions(a.variables)
  THEN [variables |-> as_tuple(a.variables)] @@ NodeFields(a)
  ELSE AssertionError

Nullify_init(a) ==
  IF IsSeqValue(a.variables) /\ AllExpressions(a.variables)
  THEN [variables |-> as_tuple(a.variables)] @@ NodeFields(a)
  ELSE AssertionError

IsArgType(v) == IsExpression(v) \/ IsStr(v)

CallStatement_init(a) ==
  IF /\ IsSeqValue(a.arguments)
     /\ \A i \in 1..PyLen(a.arguments) : IsArgType(Items(a.arguments)[i])
     /\ \/ a.kwarguments = None
        \/ /\ IsSeqValue(a.kwarguments)
           /\ \A i \in 1..PyLen(a.kwarguments) :
                 LET kw == Items(a.kwarguments)[i]
                 IN IsTuple(kw) /\ Len(kw.tuple) = 2 /\ IsArgType(kw.tuple[2])
  THEN [name |-> a.name, arguments |-> as_tuple(a.arguments),
        kwarguments |-> IF Truthy(a.kwarguments) THEN as_tuple(a.kwarguments)
                        ELSE Tup(<<>>),
        context |-> a.context, pragma |-> a.pragma]
       @@ NodeFields(a)
  ELSE AssertionError

\* A TypeDef given no symbols makes a TypeTable of its own: the table is a new
\* object, named here by the identity of the node that made it.
TypeDef_init(a, id) ==
  IF is_iterable(a.body)
  THEN [name |-> a.name, body |-> as_tuple(a.body), bind_c |-> a.bind_c,
        symbols |-> IF a.symbols # None THEN a.symbols ELSE [table |-> id]]
       @@ NodeFields(a)
  ELSE AssertionError

Comment_init(a) == [text |-> a.text] @@ NodeFields(a)

ClassInit(cls, a, id) ==
  CASE cls = "Loop" -> Loop_init(a)
    [] cls = "WhileLoop" -> WhileLoop_init(a)
    [] cls = "Conditional" -> Conditional_init(a)
    [] cls = "MultiConditional" -> MultiConditional_init(a)
    [] cls = "Statement" -> Statement_init(a)
    [] cls = "MaskedStatement" -> MaskedStatement_init(a)
    [] cls = "Section" -> Section_init(a)
    [] cls = "Scope" -> Scope_init(a)
    [] cls = "Declaration" -> Declaration_init(a)
    [] cls = "DataDeclaration" -> DataDeclaration_init(a)
    [] cls = "Import" -> Import_init(a)
    [] cls = "Interface" -> Interface_init(a)
    [] cls = "Allocation" -> Allocation_init(a)
    [] cls = "Deallocation" -> Deallocation_init(a)
    [] cls = "Nullify" -> Nullify_init(a)
    [] cls = "CallStatement" -> CallStatement_init(a)
    [] cls = "TypeDef" -> TypeDef_init(a, id)
    [] cls = "Comment" -> Comment_init(a)

\* The names of a sequence, as a set.
Range(q) == {q[i] : i \in 1..Len(q)}

\* Node.__new__: the positional arguments zipped with the argument names,
\* then the keyword arguments, then None for every argument not given.
NodeNew(cls, args, kwargs) ==
  LET given == Update(ZipDict(ArgNames(cls), args), kwargs)
  IN Update(given, [k \in Range(ArgNames(cls)) \ DOMAIN given |-> None])

\* cls(*args, **kwargs): __new__ stores the arguments, __init__ binds them
\* against its signature and sets the fields.  A call that leaves a required
\* argument out, or names one the class does not take, is a TypeError.
Construct(cls, args, kwargs, id) ==
  LET given == Update(ZipDict(ArgNames(cls), args), kwargs)
      a == given @@ Defaults(cls)
  IN IF \/ Len(args) > Len(ArgNames(cls))
        \/ ~(DOMAIN given \subseteq Range(ArgNames(cls)) \cup NodeKwargs)
        \/ ~(Range(ArgNames(cls)) \subseteq DOMAIN a)
     THEN Raise("TypeError")
     ELSE LET f == ClassInit(cls, a, id)
          IN IF IsRaise(f) THEN f
             ELSE [cls |-> cls, id |-> id, args |-> NodeNew(cls, args, kwargs), f |-> f]

----------------------------------------------------------------------------
(* Node: children, args, args_frozen, _rebuild *)

NewId(n) == [obj |-> n, gen |-> 0]
Fresh(id) == [id EXCEPT !.gen = @ + 1]

\* The `children` property, as the sequence of the tuple's entries.  Classes
\* that define none inherit Node.children.
Node_children(n) == <<>>
Loop_children(n) == <<n.f.variable, n.f.bounds, n.f.body>>
WhileLoop_children(n) == <<n.f.condition, n.f.body>>
Conditional_children(n) == <<n.f.conditions, n.f.bodies, n.f.else_body>>
MultiConditional_children(n) == <<n.f.expr, n.f.values, n.f.bodies, n.f.else_body>>
Statement_children(n) == <<n.f.target, n.f.expr>>
MaskedStatement_children(n) == <<n.f.condition, n.f.body, n.f.default>>
Section_children(n) == <<n.f.body>>
Declaration_children(n) ==
  <<n.f.variables, IF Truthy(n.f.dimensions) THEN n.f.dimensions ELSE Lst(<<>>)>>
DataDeclaration_children(n) == <<n.f.variable, n.f.values>>
Interface_children(n) == <<n.f.body>>
Allocation_children(n) == <<n.f.variables>>
Deallocation_children(n) == <<n.f.variables>>
Nullify_children(n) == <<n.f.variables>>
CallStatement_children(n) == <<n.f.arguments, n.f.kwarguments>>
TypeDef_children(n) == Node_children(n)

Children(n) ==
  CASE n.cls = "Loop" -> Loop_children(n)
    [] n.cls = "WhileLoop" -> WhileLoop_children(n)
    [] n.cls = "Conditional" -> Conditional_children(n)
    [] n.cls = "MultiConditional" -> MultiConditional_children(n)
    [] n.cls = "Statement" -> Statement_children(n)
    [] n.cls = "MaskedStatement" -> MaskedStatement_children(n)
    [] n.cls \in {"Section", "Scope"} -> Section_children(n)
    [] n.cls = "Declaration" -> Declaration_children(n)
    [] n.cls = "DataDeclaration" -> DataDeclaration_children(n)
    [] n.cls = "Interface" -> Interface_children(n)
    [] n.cls = "Allocation" -> Allocation_children(n)
    [] n.cls = "Deallocation" -> Deallocation_children(n)
    [] n.cls = "Nullify" -> Nullify_children(n)
    [] n.cls = "CallStatement" -> CallStatement_children(n)
    [] n.cls = "TypeDef" -> TypeDef_children(n)
    [] OTHER -> Node_children(n)

\* The restriction of a dict to the keys not in a sequence of names.
Without(d, names) == [k \in DOMAIN d \ Range(names) |-> d[k]]

args_frozen(n) == Without(n.args, Traversable(n.cls))

\* Node._rebuild(*args, **kwargs): the stored arguments, updated with args
\* zipped to the traversable names kwargs does not give, then with kwargs;
\* the class is called with the lot as keyword arguments.
Rebuild(n, args, kwargs) ==
  LET argnames == NotIn(Traversable(n.cls), kwargs)
      handle == Update(Update(n.args, ZipDict(argnames, args)), kwargs)
  IN Construct(n.cls, <<>>, handle, Fresh(n.id))

\* The keyword arguments bind against the signature of cls.__init__.
Binds(cls, kwargs) ==
  /\ DOMAIN kwargs \subseteq Range(ArgNames(cls)) \cup NodeKwargs
  /\ Range(ArgNames(cls)) \subseteq DOMAIN (kwargs @@ Defaults(cls))

\* The fields __init__ has assigned when one of its checks fails: Node.__init__
\* has run; Scope checks after Section.__init__ has set the body; Import
\* checks after all its assignments; the other classes check first.
SetBeforeRaise(cls, a) ==
  IF cls = "Import" THEN Import_fields(a)
  ELSE IF cls = "Scope" THEN Section_init(a)
  ELSE NodeFields(a)

\* What an in-place method leaves: the object it was called on, as it is
\* after the call, and what the call returned or raised.
After(self, ret) == [self |-> self, ret |-> ret]

\* The call as it would be if it built a new node and handed it back.
Node__update_Rebuilding(n, args, kwargs) == After(n, Rebuild(n, args, kwargs))

\* Node._update(*args, **kwargs): the stored arguments are updated in place,
\* then __init__ runs again on the same object with the lot as keyword
\* arguments.  Nothing is returned.  When __init__ raises, the stored
\* arguments stay updated.
Node__update(n, args, kwargs) ==
  LET argnames == NotIn(Traversable(n.cls), kwargs)
      handle == Update(Update(n.args, ZipDict(argnames, args)), kwargs)
      built == Construct(n.cls, <<>>, handle, n.id)
  IN IF IsRaise(built)
     THEN After([n EXCEPT !.args = handle,
                          !.f = IF Binds(n.cls, handle)
                                THEN SetBeforeRaise(n.cls, handle @@ Defaults(n.cls)) @@ n.f
                                ELSE n.f],
                built)
     ELSE After([built EXCEPT !.args = handle], None)

\* q[:pos] and q[pos:] of a sequence: a negative pos counts from the end,
\* and a pos beyond either end stops at that end.
SliceIndex(q, pos) ==
  IF pos < 0 THEN (IF Len(q) + pos < 0 THEN 0 ELSE Len(q) + pos)
  ELSE Min(pos, Len(q))
UpTo(q, pos) == SubSeq(q, 1, SliceIndex(q, pos))
From(q, pos) == SubSeq(q, SliceIndex(q, pos) + 1, Len(q))

\* Section.append(node)
Section_append(self, x) ==
  Node__update(self, <<>>, [body |-> Tup(self.f.body.tuple \o as_tuple(x).tuple)])

\* Section.insert(pos, node)
Section_insert(self, pos, x) ==
  Node__update(self, <<>>,
    [body |-> Tup(UpTo(self.f.body.tuple, pos) \o as_tuple(x).tuple
                  \o From(self.f.body.tuple, pos))])

\* Section.prepend(node)
Section_prepend(self, x) ==
  Node__update(self, <<>>, [body |-> Tup(as_tuple(x).tuple \o self.f.body.tuple)])

----------------------------------------------------------------------------
(* CallContext *)

\* CallContext(routine, active); the routine is known by its arguments, the
\* variables of its signature in the order declared.
CallContext(routine, active) == [routine |-> routine, active |-> active]

\* zip(a, b): pairs up to the end of the shorter.
Zip(a, b) == [i \in 1..Min(Len(a), Len(b)) |-> <<a[i], b[i]>>]

\* {arg.name: arg for arg in arguments}: of two arguments of one name the
\* later one stays.
ByName(arguments) ==
  [k \in {arguments[i].name : i \in 1..Len(arguments)} |->
     arguments[CHOOSE i \in 1..Len(arguments) :
                 /\ arguments[i].name = k
                 /\ \A j \in i+1..Len(arguments) : arguments[j].name # k]]

\* What iterating over an iterator gives: the items up to its end or up to
\* the exception that ends it.
Yielded(items, raise) == [items |-> items, raise |-> raise]

\* The generator ((r_args[kw], arg) for kw, arg in kwarguments): a keyword
\* that is no key of r_args ends it with a KeyError.
RECURSIVE KeywordPairs(_, _)
KeywordPairs(r_args, kwarguments) ==
  IF kwarguments = <<>> THEN Yielded(<<>>, None)
  ELSE LET kw == Head(kwarguments).tuple[1]
           arg == Head(kwarguments).tuple[2]
       IN IF kw \notin DOMAIN r_args THEN Yielded(<<>>, Raise("KeyError"))
          ELSE LET rest == KeywordPairs(r_args, Tail(kwarguments))
               IN Yielded(<<(<<r_args[kw], arg>>)>> \o rest.items, rest.raise)

\* The iteration with the keyword arguments first.
CallContext_arg_iter_KeywordsFirst(self, call) ==
  LET kwargs == KeywordPairs(ByName(self.routine.arguments), call.f.kwarguments.tuple)
  IN IF kwargs.raise # None THEN kwargs
     ELSE Yielded(kwargs.items \o Zip(self.routine.arguments, call.f.arguments.tuple), None)

\* CallContext.arg_iter(call): chain(args, kwargs), iterated to its end.
CallContext_arg_iter(self, call) ==
  LET r_args == ByName(self.routine.arguments)
      args == Zip(self.routine.arguments, call.f.arguments.tuple)
      kwargs == KeywordPairs(r_args, call.f.kwarguments.tuple)
  IN Yielded(args \o kwargs.items, kwargs.raise)

----------------------------------------------------------------------------
(* Source files: FortranSourceFile, Module, Subroutine *)

\* A text is the sequence of its pieces: the line terminator "\n", and runs
\* of other characters that are never split or merged.
NL == "\n"

\* ''.join(texts)
RECURSIVE Concat(_)
Concat(texts) == IF texts = <<>> THEN <<>> ELSE Head(texts) \o Concat(Tail(texts))

\* sep.join(texts)
RECURSIVE Join(_, _)
Join(sep, texts) ==
  IF texts = <<>> THEN <<>>
  ELSE IF Len(texts) = 1 THEN texts[1]
  ELSE texts[1] \o sep \o Join(sep, Tail(texts))

\* text.splitlines(keepends=True): each line with its terminator; a last line
\* without one is a line too.
RECURSIVE splitlines(_)
splitlines(t) ==
  IF t = <<>> THEN <<>>
  ELSE IF \E i \in 1..Len(t) : t[i] = NL
  THEN LET i == CHOOSE i \in 1..Len(t) : t[i] = NL /\ \A j \in 1..i-1 : t[j] # NL
       IN <<SubSeq(t, 1, i)>> \o splitlines(SubSeq(t, i + 1, Len(t)))
  ELSE <<t>>

\* q[a:b] for a, b >= 0
Slice(q, a, b) == SubSeq(q, Min(a, Len(q)) + 1, Min(b, Len(q)))

\* ecir.tools.extract_lines: the lines line_begin..line_end of the raw source,
\* counted from 1, both ends included.
extract_lines(attrib, raw_source) ==
  Concat(Slice(splitlines(raw_source), attrib.line_begin - 1, attrib.line_end))

\* Section(name, source) of ecir.subroutine, and its source property.
SourceSection(name, source) == [class |-> "Section", name |-> name, source |-> source]

\* Module(ast, raw_source)
Module(ast, raw_source) ==
  [class |-> "Module", name |-> ast.name, ast |-> ast,
   source |-> extract_lines(ast, raw_source)]

Module_source(self) == self.source

\* Subroutine(ast, raw_source): the lines of the routine, cut at the line
\* numbers of the specification and body nodes of the AST.
Subroutine(ast, raw_source) ==
  LET source == extract_lines(ast, raw_source)
      lines == splitlines(source)
      bend == ast.body.line_end
      sstart == ast.spec.line_begin - 1
      send == ast.spec.line_end
      n == Len(lines)
  IN [class |-> "Subroutine",
      name |-> ast.name,
      ast |-> ast,
      source |-> source,
      header |-> SourceSection("header", Concat(Slice(lines, 0, sstart))),
      declarations |-> SourceSection("declarations", Concat(Slice(lines, sstart, send))),
      body |-> SourceSection("body", Concat(Slice(lines, send, bend))),
      post |-> SourceSection("post", Concat(Slice(lines, bend, n)))]

\* Subroutine.source
Subroutine_source(self) ==
  Concat(<<self.header.source, self.declarations.source, self.body.source,
           self.post.source>>)

\* The nodes of a given tag under the file node, in document order.
findall(ast, tag) == SelectSeq(ast, LAMBDA u : u.tag = tag)

\* FortranSourceFile(filename): the raw content, and the subroutines and
\* modules of its AST.
FortranSourceFile(raw_source, ast) ==
  [raw_source |-> raw_source,
   subroutines |-> [i \in 1..Len(findall(ast, "subroutine")) |->
                      Subroutine(findall(ast, "subroutine")[i], raw_source)],
   modules |-> [i \in 1..Len(findall(ast, "module")) |->
                  Module(findall(ast, "module")[i], raw_source)]]

\* FortranSourceFile.source
FortranSourceFile_source(self) ==
  Join(<<NL, NL>>,
       [i \in 1..Len(self.modules) |-> Module_source(self.modules[i])]
       \o [i \in 1..Len(self.subroutines) |-> Subroutine_source(self.subroutines[i])])

----------------------------------------------------------------------------
(* Visitor dispatch *)

\* type(o).mro(), by class name.
Mro(o) ==
  IF IsNode(o)
  THEN (IF o.cls = "Scope" THEN <<"Scope", "Section">> ELSE <<o.cls>>)
       \o <<"Node", "object">>
  ELSE IF IsTuple(o) THEN <<"tuple", "object">>
  ELSE IF IsList(o) THEN <<"list", "object">>
  ELSE IF IsStr(o) THEN <<"str", "object">>
  ELSE IF IsExpression(o) THEN <<"Expression", "object">>
  ELSE IF o = None THEN <<"NoneType", "object">>
  ELSE IF "class" \in DOMAIN o
  THEN (IF o.class = "Section" THEN <<>> ELSE <<o.class>>) \o <<"Section", "object">>
  ELSE <<"other", "object">>

isinstance(o, T) == T \in Range(Mro(o))

\* The visit_* methods Visitor itself defines.
VisitorHandlers == [object |-> "visit_object", Node |-> "visit_Node"]

\* Visitor.__init__ for a subclass that defines visit_<T> for each class
\* name T of own, and nothing else: _handlers, from class name to method.
Visitor___init__(own) == [T \in own |-> "visit_" \o T] @@ VisitorHandlers

\* What a lookup gives: the method, and _handlers as the lookup leaves it.
Dispatch(meth, handlers) == [meth |-> meth, handlers |-> handlers]

\* Visitor.lookup_method(instance) on a visitor whose _handlers is handlers:
\* the entry of the name of the class; failing that the entry of the first
\* name of the rest of the mro that has one, which is then stored under the
\* name of the class.
Visitor_lookup_method(handlers, instance) ==
  LET name == Head(Mro(instance))
      rest == Tail(Mro(instance))
      hit == {i \in 1..Len(rest) : rest[i] \in DOMAIN handlers}
  IN IF name \in DOMAIN handlers THEN Dispatch(handlers[name], handlers)
     ELSE IF hit = {} THEN Dispatch("RuntimeError", handlers)
     ELSE LET entry_ == handlers[rest[CHOOSE i \in hit : \A j \in hit : i <= j]]
          IN Dispatch(entry_, (name :> entry_) @@ handlers)

\* What a visit gives: what it returns or raises, the handlers it called
\* with their visitee, in the order of the calls, and _handlers after it.
Visited(ret, calls, handlers) == [ret |-> ret, calls |-> calls, handlers |-> handlers]

Visitor_default_retval == None

RECURSIVE Visitor_visit(_, _)

Visitor_visit_object(handlers, o) == Visited(Visitor_default_retval, <<>>, handlers)

\* o.children of an object that has none is an AttributeError.
Visitor_visit_Node(handlers, o) ==
  IF IsNode(o) THEN Visitor_visit(handlers, Tup(Children(o)))
  ELSE Visited(Raise("AttributeError"), <<>>, handlers)

\* Visitor.reuse, which the handlers of the subclass are.
Visitor_reuse(handlers, o) == Visited(o, <<>>, handlers)

Visitor_visit(handlers, o) ==
  LET found == Visitor_lookup_method(handlers, o)
      meth == found.meth
      done == CASE meth = "RuntimeError" -> Visited(Raise("RuntimeError"), <<>>, found.handlers)
                [] meth = "visit_object" -> Visitor_visit_object(found.handlers, o)
                [] meth = "visit_Node" -> Visitor_visit_Node(found.handlers, o)
                [] OTHER -> Visitor_reuse(found.handlers, o)
  IN IF meth = "RuntimeError" THEN done
     ELSE Visited(done.ret, <<[meth |-> meth, o |-> o]>> \o done.calls, done.handlers)

\* The method a lookup gives.
lookup_method(handlers, o) == Visitor_lookup_method(handlers, o).meth

\* The visit_* methods each visitor class has (Visitor.__init__), its own and
\* the inherited ones.
TransformerHandlers ==
  [object |-> "visit_object", tuple |-> "visit_tuple", list |-> "visit_tuple",
   Node |-> "visit_Node"]
FindNodesHandlers ==
  [object |-> "visit_object", tuple |-> "visit_tuple", Node |-> "visit_Node"]

\* The first exception among the values of a sequence, or None.
RECURSIVE FirstRaise(_)
FirstRaise(q) ==
  IF q = <<>> THEN None
  ELSE IF IsRaise(Head(q)) THEN Head(q)
  ELSE FirstRaise(Tail(q))

----------------------------------------------------------------------------
(* Transformer and NestedTransformer.  m is self.mapper: a function from   *)
(* the identities of the mapped nodes to their handles; nested tells the   *)
(* NestedTransformer's visit_Node from the Transformer's.                  *)

\* isinstance(handle, Iterable)
IsIterableHandle(h) == IsTuple(h) \/ IsList(h)

\* tuple + x
TupleAdd(t, x) == IF IsTuple(x) THEN Tup(t.tuple \o x.tuple) ELSE Raise("TypeError")

Transformer_visit_object(o) == o

\* tuple(i for i in visited if i is not None)
RECURSIVE NotNone(_)
NotNone(visited) ==
  IF visited = <<>> THEN <<>>
  ELSE (IF Head(visited) # None THEN <<Head(visited)>> ELSE <<>>)
         \o NotNone(Tail(visited))

\* Transformer.visit_tuple; visited is what the visits of the items gave, up
\* to the first that raised.
Transformer_visit_tuple(visited) ==
  IF FirstRaise(visited) # None THEN FirstRaise(visited)
  ELSE Tup(NotNone(visited))

\* The values Transformer.visit_Node visits: the children of a node that is
\* not a key of the mapping.
Transformer_visit_Node_visits(m, o) ==
  IF o.id \in DOMAIN m THEN <<>> ELSE Children(o)

\* Transformer.visit_Node putting a sequence after the first child instead
\* of before it: what a property about the place of the sequence must tell
\* from the method.
Transformer_visit_Node_Appending(m, o, rebuilt) ==
  IF o.id \in DOMAIN m
  THEN LET handle == m[o.id]
       IN IF handle = None THEN None
          ELSE IF IsIterableHandle(handle)
          THEN IF Children(o) = <<>> THEN Raise("NameError")
               ELSE LET first == IF IsTuple(Children(o)[1])
                                 THEN TupleAdd(Children(o)[1], as_tuple(handle))
                                 ELSE Raise("TypeError")
                    IN IF IsRaise(first) THEN first
                       ELSE Rebuild(o, <<first>> \o Tail(Children(o)), args_frozen(o))
          ELSE Rebuild(handle, <<>>, handle.args)
  ELSE IF FirstRaise(rebuilt) # None THEN FirstRaise(rebuilt)
  ELSE Rebuild(o, rebuilt, args_frozen(o))

\* Transformer.visit_Node; rebuilt is what the visits of the children gave,
\* up to the first that raised.
Transformer_visit_Node(m, o, rebuilt) ==
  IF o.id \in DOMAIN m
  THEN LET handle == m[o.id]
       IN IF handle = None THEN None
          ELSE IF IsIterableHandle(handle)
          THEN IF Children(o) = <<>> THEN Raise("NameError")
               ELSE LET first == TupleAdd(as_tuple(handle), Children(o)[1])
                    IN IF IsRaise(first) THEN first
                       ELSE Rebuild(o, <<first>> \o Tail(Children(o)), args_frozen(o))
          ELSE Rebuild(handle, <<>>, handle.args)
  ELSE IF FirstRaise(rebuilt) # None THEN FirstRaise(rebuilt)
  ELSE Rebuild(o, rebuilt, args_frozen(o))

\* The values NestedTransformer.visit_Node visits: the children, whatever
\* the mapping has for the node.
NestedTransformer_visit_Node_visits(m, o) == Children(o)

\* NestedTransformer.visit_Node; rebuilt is what the visits of the children
\* gave, up to the first that raised.
NestedTransformer_visit_Node(m, o, rebuilt) ==
  LET handle == IF o.id \in DOMAIN m THEN m[o.id] ELSE o
  IN IF FirstRaise(rebuilt) # None THEN FirstRaise(rebuilt)
     ELSE IF handle = None THEN None
     ELSE IF IsIterableHandle(handle)
     THEN IF Children(o) = <<>> THEN Raise("NameError")
          ELSE LET first == TupleAdd(as_tuple(handle), rebuilt[1])
               IN IF IsRaise(first) THEN first
                  ELSE Rebuild(o, <<first>> \o Tail(rebuilt), args_frozen(o))
     ELSE Rebuild(handle, rebuilt, args_frozen(handle))

----------------------------------------------------------------------------
(* What a pass writes: the nodes, by identity, whose attributes or stored  *)
(* arguments it assigns or updates, and the dicts it assigns or updates:   *)
(* "mapper" is the mapping the caller passed, "self.mapper" and            *)
(* "self.rebuilt" are the transformer's own, "handle" is local to _rebuild.*)

NoWrites == [nodes |-> {}, dicts |-> {}]
Both(a, b) == [nodes |-> a.nodes \cup b.nodes, dicts |-> a.dicts \cup b.dicts]

\* Transformer.__init__: self.mapper is a copy of the mapping passed, and
\* self.rebuilt a new dict.
Transformer___init___writes == [nodes |-> {}, dicts |-> {"self.mapper", "self.rebuilt"}]

\* _rebuild updating the stored arguments of the node itself instead of a
\* copy of them.
Rebuild_writes_NoCopy(n) == [nodes |-> {n.id, Fresh(n.id)}, dicts |-> {}]

\* Node._rebuild: handle is a copy of self._args, and the update goes to the
\* copy; __new__ and __init__ write the new object.
Rebuild_writes(n) == [nodes |-> {Fresh(n.id)}, dicts |-> {"handle"}]

\* What Transformer.visit_Node writes itself, the visits it makes apart.
Transformer_visit_Node_writes(m, o, rebuilt) ==
  IF o.id \in DOMAIN m
  THEN LET handle == m[o.id]
       IN IF handle = None THEN NoWrites
          ELSE IF IsIterableHandle(handle)
          THEN IF IsRaise(Transformer_visit_Node(m, o, rebuilt)) THEN NoWrites
               ELSE Rebuild_writes(o)
          ELSE Rebuild_writes(handle)
  ELSE IF FirstRaise(rebuilt) # None THEN NoWrites
  ELSE Rebuild_writes(o)

\* What NestedTransformer.visit_Node writes itself, the visits it makes
\* apart.
NestedTransformer_visit_Node_writes(m, o, rebuilt) ==
  LET handle == IF o.id \in DOMAIN m THEN m[o.id] ELSE o
  IN IF FirstRaise(rebuilt) # None \/ handle = None THEN NoWrites
     ELSE IF IsIterableHandle(handle)
     THEN IF Children(o) = <<>> \/ IsRaise(TupleAdd(as_tuple(handle), rebuilt[1]))
          THEN NoWrites
          ELSE Rebuild_writes(o)
     ELSE Rebuild_writes(handle)

----------------------------------------------------------------------------
(* self.rebuilt of a transformer: from the identity of a visited node to   *)
(* what its visit returned.                                                *)

\* The record kept only for the nodes that have something in their place.
Transformer_record_Kept(entries, o, obj) ==
  IF obj = None \/ (IsNode(obj) /\ obj.id = o.id) THEN entries
  ELSE Update(entries, o.id :> obj)

\* if isinstance(o, Node) and obj is not o: self.rebuilt[o] = obj
Transformer_record(entries, o, obj) ==
  IF IsNode(obj) /\ obj.id = o.id THEN entries
  ELSE Update(entries, o.id :> obj)

----------------------------------------------------------------------------
(* A visit of a transformer: what it returns or raises, what it writes and *)
(* the entries it makes in self.rebuilt, the visits its handler makes      *)
(* included.                                                               *)

Outcome(ret, writes, rebuilt) == [ret |-> ret, writes |-> writes, rebuilt |-> rebuilt]

\* The visits a handler makes, one after the other, end with the first that
\* raises.
Made(visits) ==
  LET raised == {i \in 1..Len(visits) : IsRaise(visits[i].ret)}
  IN IF raised = {} THEN visits
     ELSE SubSeq(visits, 1, CHOOSE i \in raised : \A j \in raised : i <= j)

\* What the visits made gave, what they wrote, and the entries they made; a
\* later entry takes the place of an earlier one of the same key.
Returned(made) == [i \in 1..Len(made) |-> made[i].ret]
Written(made) ==
  [nodes |-> UNION {made[i].writes.nodes : i \in 1..Len(made)},
   dicts |-> UNION {made[i].writes.dicts : i \in 1..Len(made)}]
RECURSIVE Recorded(_)
Recorded(made) ==
  IF made = <<>> THEN <<>>
  ELSE Update(Head(made).rebuilt, Recorded(Tail(made)))

\* Transformer.visit once the handler meth has made its visits and given
\* obj: self.rebuilt[o] = obj for a node that came back as another object.
Transformer_visit_after(m, nested, o, meth, made, obj) ==
  CASE meth = "visit_object" -> Outcome(obj, NoWrites, <<>>)
    [] meth = "visit_tuple" -> Outcome(obj, Written(made), Recorded(made))
    [] meth = "visit_Node" ->
         Outcome(obj,
                 Both(Both(Written(made),
                           IF nested
                           THEN NestedTransformer_visit_Node_writes(m, o, Returned(made))
                           ELSE Transformer_visit_Node_writes(m, o, Returned(made))),
                      IF IsRaise(obj) THEN NoWrites
                      ELSE [nodes |-> {}, dicts |-> {"self.rebuilt"}]),
                 IF IsRaise(obj) THEN Recorded(made)
                 ELSE Transformer_record(Recorded(made), o, obj))

\* The handler meth of a transformer on o, its visits made.
Transformer_handle(m, nested, o, meth, made) ==
  Transformer_visit_after(m, nested, o, meth, made,
    CASE meth = "visit_object" -> Transformer_visit_object(o)
      [] meth = "visit_tuple" -> Transformer_visit_tuple(Returned(made))
      [] meth = "visit_Node" ->
           IF nested THEN NestedTransformer_visit_Node(m, o, Returned(made))
           ELSE Transformer_visit_Node(m, o, Returned(made)))

\* The values the handler meth visits.
Transformer_visits(m, nested, o, meth) ==
  CASE meth = "visit_object" -> <<>>
    [] meth = "visit_tuple" -> Items(o)
    [] meth = "visit_Node" ->
         IF nested THEN NestedTransformer_visit_Node_visits(m, o)
         ELSE Transformer_visit_Node_visits(m, o)

\* Transformer.visit, with all it does.
RECURSIVE Transformer_pass(_, _, _)
Transformer_pass_of(m, nested, o, meth) ==
  Transformer_handle(m, nested, o, meth,
    Made([i \in 1..Len(Transformer_visits(m, nested, o, meth)) |->
            Transformer_pass(m, nested, Transformer_visits(m, nested, o, meth)[i])]))
Transformer_pass(m, nested, o) ==
  Transformer_pass_of(m, nested, o, lookup_method(TransformerHandlers, o))

\* Transformer.visit: what it returns, what it writes, what it leaves in
\* self.rebuilt.
Transformer_visit(m, nested, o) == Transformer_pass(m, nested, o).ret
Transformer_writes(m, nested, o) == Transformer_pass(m, nested, o).writes
Transformer_rebuilt(m, nested, o) == Transformer_pass(m, nested, o).rebuilt

----------------------------------------------------------------------------
(* FindNodes in type mode.  ret is None or the list of the nodes found.    *)

RECURSIVE FindNodes_visit(_, _, _)

FindNodes_visit_object(o, ret) == ret

\* for i in q: ret = self.visit(i, ret=ret)
RECURSIVE FindNodes_each(_, _, _)
FindNodes_each(T, q, ret) ==
  IF q = <<>> THEN ret
  ELSE FindNodes_each(T, Tail(q), FindNodes_visit(T, Head(q), ret))

FindNodes_visit_tuple(T, o, ret) == FindNodes_each(T, Items(o), ret)

FindNodes_visit_Node(T, o, ret) ==
  LET ret0 == IF ret = None THEN Lst(<<>>) ELSE ret
      ret1 == IF isinstance(o, T) THEN Lst(Append(ret0.list, o)) ELSE ret0
  IN FindNodes_each(T, Children(o), ret1)

FindNodes_visit(T, o, ret) ==
  LET meth == lookup_method(FindNodesHandlers, o)
  IN CASE meth = "visit_object" -> FindNodes_visit_object(o, ret)
       [] meth = "visit_tuple" -> FindNodes_visit_tuple(T, o, ret)
       [] meth = "visit_Node" -> FindNodes_visit_Node(T, o, ret)

----------------------------------------------------------------------------
(* Expression equality (loki/expression.py).  A str is here the sequence   *)
(* of its characters.                                                      *)

NotImplemented == [atom |-> "NotImplemented"]
Bool(b) == IF b THEN PyTrue ELSE PyFalse

\* str.upper(), over the characters the expressions are written with
UpperChar(c) ==
  CASE c = "n" -> "N"
    [] c = "m" -> "M"
    [] c = "j" -> "J"
    [] c = "l" -> "L"
    [] c = "i" -> "I"
    [] c = "v" -> "V"
    [] OTHER -> c
upper(s) == Str([i \in 1..Len(s.str) |-> UpperChar(s.str[i])])

Literal(value, kind, type) ==
  [is |-> "Literal", value |-> value, kind |-> kind, type |-> type]
RangeIndex(lower, upper_, step) ==
  [is |-> "RangeIndex", lower |-> lower, upper |-> upper_, step |-> step]
IsLiteral(v) == "is" \in DOMAIN v /\ v.is = "Literal"
IsRangeIndex(v) == "is" \in DOMAIN v /\ v.is = "RangeIndex"

\* Variable.__init__
Variable(name, type, shape, dimensions, ref, initial) ==
  [is |-> "Variable", name |-> name, type |-> type, shape |-> shape,
   dimensions |-> IF Truthy(dimensions) THEN dimensions ELSE Tup(<<>>),
   ref |-> ref, initial |-> initial]
IsVariable(v) == "is" \in DOMAIN v /\ v.is = "Variable"

\* Operation(ops, operands, parenthesis)
Operation(ops, operands, parenthesis) ==
  [is |-> "Operation", ops |-> as_tuple(ops), operands |-> as_tuple(operands),
   parenthesis |-> parenthesis]
IsOperation(v) == "is" \in DOMAIN v /\ v.is = "Operation"

\* Index(name)
Index(name) == [is |-> "Index", name |-> name]
IsIndex(v) == "is" \in DOMAIN v /\ v.is = "Index"

\* a is b: None is the one object of its type; two operands of a comparison
\* are otherwise two objects.
Is(a, b) == a = None /\ b = None

\* Literal.expr
Literal_expr(self) ==
  IF self.kind = None THEN self.value
  ELSE Str(self.value.str \o <<"_">> \o self.kind.str)

\* str(v), as '%s' % v gives it
RECURSIVE str(_)

\* RangeIndex.expr
RangeIndex_expr(self) ==
  LET step == IF self.step = None THEN <<>> ELSE <<":">> \o str(self.step).str
      lower == IF self.lower = None THEN <<>> ELSE str(self.lower).str
      upper_ == IF self.upper = None THEN <<>> ELSE str(self.upper).str
  IN Str(lower \o <<":">> \o upper_ \o step)

\* ','.join(q), q a sequence of str
RECURSIVE JoinComma(_)
JoinComma(q) ==
  IF q = <<>> THEN <<>>
  ELSE IF Len(q) = 1 THEN q[1].str
  ELSE q[1].str \o <<",">> \o JoinComma(Tail(q))

\* Variable.expr
Variable_expr(self) ==
  LET dims == Items(self.dimensions)
      idx == IF self.dimensions # None /\ Len(dims) > 0
             THEN <<"(">> \o JoinComma([i \in 1..Len(dims) |-> str(dims[i])]) \o <<")">>
             ELSE <<>>
      ref == IF self.ref = None THEN <<>> ELSE str(self.ref).str \o <<"%">>
  IN Str(ref \o self.name.str \o idx)

\* Index.expr
Index_expr(self) == str(self.name)

\* ''.join(['%s%s' % (o, str(e)) for o, e in zip(ops, operands)])
RECURSIVE JoinZip(_, _)
JoinZip(ops, operands) ==
  IF ops = <<>> \/ operands = <<>> THEN <<>>
  ELSE str(Head(ops)).str \o str(Head(operands)).str
         \o JoinZip(Tail(ops), Tail(operands))

\* Operation.expr
Operation_expr(self) ==
  LET ops == self.ops.tuple
      operands == self.operands.tuple
      s == str(operands[1]).str \o JoinZip(ops, Tail(operands))
  IN IF Len(ops) = 1 /\ Len(operands) = 1
     THEN Str(str(ops[1]).str \o str(operands[1]).str)
     ELSE IF operands = <<>> THEN Raise("IndexError")
     ELSE IF Truthy(self.parenthesis) THEN Str(<<"(">> \o s \o <<")">>)
     ELSE Str(s)

str(v) ==
  IF IsStr(v) THEN v
  ELSE IF IsOperation(v) THEN Operation_expr(v)
  ELSE IF IsIndex(v) THEN Index_expr(v)
  ELSE IF IsLiteral(v) THEN Literal_expr(v)
  ELSE IF IsRangeIndex(v) THEN RangeIndex_expr(v)
  ELSE IF IsVariable(v) THEN Variable_expr(v)
  ELSE Str(<<"N", "o", "n", "e">>)

\* a == b: a's __eq__, then b's when a's gives NotImplemented, then identity.
RECURSIVE PyEq(_, _)

\* tuple == tuple: item by item, identical or equal.
TupleEq(s, t) ==
  Bool(/\ Len(s) = Len(t)
       /\ \A i \in 1..Len(s) : Is(s[i], t[i]) \/ PyEq(s[i], t[i]) = PyTrue)

\* object.__eq__
object___eq__(self, other) == IF Is(self, other) THEN PyTrue ELSE NotImplemented

\* str.__eq__
str___eq__(self, other) ==
  IF IsStr(other) THEN Bool(self.str = other.str) ELSE NotImplemented

Literal___key(self) == <<self.value, self.kind, self.type>>

Literal___eq__(self, other) ==
  IF IsStr(other) THEN PyEq(upper(self.value), upper(other))
  ELSE IF IsLiteral(other) THEN TupleEq(Literal___key(self), Literal___key(other))
  ELSE object___eq__(self, other)

\* bool.__eq__
IsBool(v) == v = PyTrue \/ v = PyFalse
bool___eq__(self, other) ==
  IF IsBool(other) THEN Bool(self = other) ELSE NotImplemented

Operation___key(self) == <<self.ops, self.operands, self.parenthesis>>

Operation___eq__(self, other) ==
  IF IsStr(other) THEN PyEq(upper(Operation_expr(self)), upper(other))
  ELSE IF IsOperation(other)
  THEN TupleEq(Operation___key(self), Operation___key(other))
  ELSE object___eq__(self, other)

Index___key(self) == self.name

Index___eq__(self, other) ==
  IF IsStr(other) THEN PyEq(upper(self.name), upper(other))
  ELSE IF IsIndex(other) THEN PyEq(self.name, other.name)
  ELSE object___eq__(self, other)

RangeIndex___key(self) == <<self.lower, self.upper, self.step>>

\* RangeIndex.__eq__ without its short-cut for trivial ranges: what a
\* property about the short-cut must tell from the method.
RangeIndex___eq__NoShortcut(self, other) ==
  IF IsStr(other) THEN PyEq(upper(RangeIndex_expr(self)), upper(other))
  ELSE IF IsRangeIndex(other)
  THEN TupleEq(RangeIndex___key(self), RangeIndex___key(other))
  ELSE object___eq__(self, other)

RangeIndex___eq__(self, other) ==
  IF /\ self.lower = None \/ PyEq(self.lower, Str(<<"1">>)) = PyTrue
     /\ self.step = None \/ PyEq(self.step, Str(<<"1">>)) = PyTrue
     /\ self.upper # None
  THEN PyEq(self.upper, other)
  ELSE IF IsStr(other) THEN PyEq(upper(RangeIndex_expr(self)), upper(other))
  ELSE IF IsRangeIndex(other)
  THEN TupleEq(RangeIndex___key(self), RangeIndex___key(other))
  ELSE object___eq__(self, other)

\* tuple.__eq__
tuple___eq__(self, other) ==
  IF IsTuple(other) THEN TupleEq(self.tuple, other.tuple) ELSE NotImplemented

Variable___key(self) == <<self.name, self.type, self.dimensions, self.ref>>

Variable___eq__(self, other) ==
  IF IsStr(other) THEN PyEq(upper(str(self)), upper(other))
  ELSE IF IsVariable(other) THEN TupleEq(Variable___key(self), Variable___key(other))
  ELSE object___eq__(self, other)

\* c += x for a tuple x: a tuple gives a new tuple and leaves c alone, a list
\* is extended in place, anything else is a TypeError.  The object c names
\* after the statement, and the object c named before it as it is now.
IAdd(c, x) ==
  IF IsTuple(c) THEN [now |-> Tup(c.tuple \o x), was |-> c]
  ELSE IF IsList(c) THEN [now |-> Lst(c.list \o x), was |-> Lst(c.list \o x)]
  ELSE [now |-> Raise("TypeError"), was |-> c]

\* Variable.children: c is the object self.dimensions names, and c += (ref,)
\* acts on that object.
Variable_children(self) ==
  IF self.ref = None THEN After(self, self.dimensions)
  ELSE LET c == IAdd(self.dimensions, <<self.ref>>)
       IN After([self EXCEPT !.dimensions = c.was], c.now)

\* list.__eq__
list___eq__(self, other) ==
  IF IsList(other) THEN TupleEq(self.list, other.list) ELSE NotImplemented

\* type(a).__eq__(a, b)
Dunder_eq(a, b) ==
  IF IsStr(a) THEN str___eq__(a, b)
  ELSE IF IsTuple(a) THEN tuple___eq__(a, b)
  ELSE IF IsList(a) THEN list___eq__(a, b)
  ELSE IF IsVariable(a) THEN Variable___eq__(a, b)
  ELSE IF IsLiteral(a) THEN Literal___eq__(a, b)
  ELSE IF IsRangeIndex(a) THEN RangeIndex___eq__(a, b)
  ELSE IF IsOperation(a) THEN Operation___eq__(a, b)
  ELSE IF IsIndex(a) THEN Index___eq__(a, b)
  ELSE IF IsBool(a) THEN bool___eq__(a, b)
  ELSE object___eq__(a, b)

PyEq(a, b) ==
  IF Dunder_eq(a, b) # NotImplemented THEN Dunder_eq(a, b)
  ELSE IF Dunder_eq(b, a) # NotImplemented THEN Dunder_eq(b, a)
  ELSE Bool(Is(a, b))

\* hash(v).  The hash of a str, of None and of a bool stands for the value, as
\* no two of the values compared here collide; the hash of a tuple is made of
\* the hashes of its items; a list is unhashable; an expression hashes its
\* key.
RECURSIVE hash(_)
HashOf(q) == [hash |-> q]
hash_tuple(q) ==
  LET hs == [i \in 1..Len(q) |-> hash(q[i])]
  IN IF FirstRaise(hs) # None THEN FirstRaise(hs) ELSE HashOf(hs)

\* Literal.__hash__, Variable.__hash__, RangeIndex.__hash__, Index.__hash__,
\* Operation.__hash__
Literal___hash__(self) == hash_tuple(Literal___key(self))
Variable___hash__(self) == hash_tuple(Variable___key(self))
RangeIndex___hash__(self) == hash_tuple(RangeIndex___key(self))
Index___hash__(self) == hash(Index___key(self))
Operation___hash__(self) == hash_tuple(Operation___key(self))

hash(v) ==
  IF IsTuple(v) THEN hash_tuple(v.tuple)
  ELSE IF IsList(v) THEN Raise("TypeError")
  ELSE IF IsLiteral(v) THEN Literal___hash__(v)
  ELSE IF IsVariable(v) THEN Variable___hash__(v)
  ELSE IF IsRangeIndex(v) THEN RangeIndex___hash__(v)
  ELSE IF IsIndex(v) THEN Index___hash__(v)
  ELSE IF IsOperation(v) THEN Operation___hash__(v)
  ELSE v

\* all(v): v is iterated; a value that is not iterable is a TypeError.
all(v) ==
  IF IsSeqValue(v) THEN Bool(\A i \in 1..Len(Items(v)) : Truthy(Items(v)[i]))
  ELSE Raise("TypeError")

\* assert(x): an exception raised while x is evaluated goes through.
assert(x, then) ==
  IF IsRaise(x) THEN x ELSE IF Truthy(x) THEN then ELSE AssertionError

RECURSIVE type(_)

\* Operation.type: the types of the operands are listed, the list is
\* compared with its first entry, and all() is called on what the
\* comparison gives.
Operation_type(self) ==
  LET types == [i \in 1..Len(self.operands.tuple) |-> type(self.operands.tuple[i])]
  IN IF FirstRaise(types) # None THEN FirstRaise(types)
     ELSE IF types = <<>> THEN Raise("IndexError")
     ELSE assert(all(PyEq(Lst(types), types[1])), types[1])

\* o.type
type(o) == IF IsOperation(o) THEN Operation_type(o) ELSE o.type

----------------------------------------------------------------------------
(* The state machine: a caller builds an IR bottom-up, as a frontend does, *)
(* calls constructors, clones nodes and runs visitors over the IR.         *)

\* The number of nodes of the IR.
MaxNodes == 3

\* The expressions of the statements the caller builds, by object number.
TargetNames == <<"a", "b", "c", "d", "e", "f", "g", "h">>

NoOp ==
  /\ op' = "none" /\ mapper' = <<>> /\ match' = "none" /\ result' = None
  /\ passed' = <<>>
  /\ written' = NoWrites
  /\ self_rebuilt' = <<>>

Init ==
  /\ tree = Tup(<<>>)
  /\ nextId = 1
  /\ node = None
  /\ op = "none"
  /\ mapper = <<>>
  /\ match = "none"
  /\ result = None
  /\ passed = <<>>
  /\ written = NoWrites
  /\ self_rebuilt = <<>>
  /\ left = None
  /\ right = None
  /\ answer = None
  /\ tables = [t \in {"routine", "module", "typedef"} |-> [symbols |-> <<>>, parent |-> "none"]]
  /\ query = <<>>
  /\ entry = None
  /\ callee = None
  /\ callsite = None
  /\ pairs = None
  /\ file = None
  /\ text = None
  /\ visitor = None
  /\ dispatched = None
  /\ held = None
  /\ reads = <<>>

\* The last k entries of a sequence, and the ones before them.
LastK(q, k) == SubSeq(q, Len(q) - k + 1, Len(q))
ButLastK(q, k) == SubSeq(q, 1, Len(q) - k)

\* Statement(target, expr) appended to the IR.
AddStatement ==
  /\ op = "none"
  /\ nextId <= MaxNodes
  /\ tree' = Tup(Append(tree.tuple,
                Construct("Statement",
                          <<Expr(TargetNames[nextId]), Expr("rhs")>>, <<>>,
                          NewId(nextId))))
  /\ nextId' = nextId + 1
  /\ node' = None
  /\ NoOp
  /\ UNCHANGED nonIrVars

\* The calls that wrap a body in a node with a body; a body of two nodes or
\* more is also wrapped in a Conditional of two branches, the first node of
\* the body and the rest of it.
WrapCalls(body) ==
  <<[cls |-> "Loop", args |-> <<Expr("i"), Tup(body)>>, kwargs |-> [bounds |-> Expr("r")]],
    [cls |-> "Section", args |-> <<>>, kwargs |-> [body |-> Tup(body)]],
    [cls |-> "Conditional",
     args |-> <<Tup(<<Expr("c")>>), Tup(<<Tup(body)>>), Tup(<<>>)>>, kwargs |-> <<>>],
    [cls |-> "TypeDef", args |-> <<Str("t"), Tup(body)>>, kwargs |-> <<>>]>>
    \o (IF Len(body) < 2 THEN <<>>
        ELSE <<[cls |-> "Conditional",
                args |-> <<Tup(<<Expr("c"), Expr("d")>>),
                           Tup(<<Tup(SubSeq(body, 1, 1)), Tup(SubSeq(body, 2, Len(body)))>>),
                           Tup(<<>>)>>,
                kwargs |-> <<>>]>>)

\* The last k nodes of the IR become the body of a new node, which takes
\* their place.
Wrap ==
  /\ op = "none"
  /\ nextId <= MaxNodes
  /\ \E k \in 0..Len(tree.tuple) :
       \E c \in 1..Len(WrapCalls(LastK(tree.tuple, k))) :
         LET call == WrapCalls(LastK(tree.tuple, k))[c]
         IN tree' = Tup(Append(ButLastK(tree.tuple, k),
                      Construct(call.cls, call.args, call.kwargs, NewId(nextId))))
  /\ nextId' = nextId + 1
  /\ node' = None
  /\ NoOp
  /\ UNCHANGED nonIrVars

\* The nodes of a value at every depth, in pre-order, depth first, left to
\* right: a node, then the nodes of its traversable fields in the order
\* _traversable declares them.
RECURSIVE NodesOf(_)
RECURSIVE NodesOfSeq(_)
NodesOfSeq(q) == IF q = <<>> THEN <<>> ELSE NodesOf(Head(q)) \o NodesOfSeq(Tail(q))
NodesOf(v) ==
  IF IsNode(v)
  THEN <<v>> \o NodesOfSeq([i \in 1..Len(Traversable(v.cls)) |-> v.f[Traversable(v.cls)[i]]])
  ELSE IF IsSeqValue(v) THEN NodesOfSeq(Items(v))
  ELSE <<>>

IdsOf(v) == {NodesOf(v)[i].id : i \in 1..Len(NodesOf(v))}

\* The values a mapping gives: the removal marker, a sequence of two new
\* statements, a new statement, a new loop.
NewStatement(t, e, n) == Construct("Statement", <<Expr(t), Expr(e)>>, <<>>, NewId(n))
SpliceHandle == Tup(<<NewStatement("p1", "q1", -1), NewStatement("p2", "q2", -2)>>)
StatementHandle == NewStatement("p", "q", -3)
LoopHandle ==
  Construct("Loop", <<Expr("j"), Tup(<<NewStatement("p4", "q4", -4)>>)>>,
            [bounds |-> Expr("s")], NewId(-5))
Handles == {None, SpliceHandle, StatementHandle, LoopHandle}

\* The mappings from no node, one node or two nodes of the IR to handles.
Mappers(v) ==
  UNION {[S -> Handles] : S \in {{}} \cup {{x, y} : x, y \in IdsOf(v)}}

\* Transformer(m).visit(tree)
RunTransformer ==
  /\ op = "none"
  /\ \E m \in Mappers(tree) :
       LET pass == Transformer_pass(m, FALSE, tree)
       IN /\ mapper' = m
          /\ result' = pass.ret
          /\ written' = Both(Transformer___init___writes, pass.writes)
          /\ self_rebuilt' = pass.rebuilt
  /\ op' = "Transformer"
  /\ match' = "none"
  /\ node' = None
  /\ UNCHANGED <<tree, nextId, passed>>
  /\ UNCHANGED nonIrVars

\* NestedTransformer(m).visit(tree)
RunNestedTransformer ==
  /\ op = "none"
  /\ \E m \in Mappers(tree) :
       LET pass == Transformer_pass(m, TRUE, tree)
       IN /\ mapper' = m
          /\ result' = pass.ret
          /\ written' = Both(Transformer___init___writes, pass.writes)
          /\ self_rebuilt' = pass.rebuilt
  /\ op' = "NestedTransformer"
  /\ match' = "none"
  /\ node' = None
  /\ UNCHANGED <<tree, nextId, passed>>
  /\ UNCHANGED nonIrVars

\* The classes searched for.
MatchClasses == {"Statement", "Loop", "Section", "Conditional", "TypeDef", "Node"}

\* FindNodes(T).visit(tree)
RunFindNodes ==
  /\ op = "none"
  /\ \E T \in MatchClasses :
       /\ match' = T
       /\ result' = FindNodes_visit(T, tree, None)
  /\ op' = "FindNodes"
  /\ mapper' = <<>>
  /\ node' = None
  /\ UNCHANGED <<tree, nextId, passed, written, self_rebuilt>>
  /\ UNCHANGED nonIrVars

\* What else is searched: the IR as a list, a tuple and a list that hold no
\* node, a str, an expression, None.
Searched(body) ==
  {Lst(body), Tup(<<Str("s"), Expr("x")>>), Lst(<<>>), Str("s"), Expr("x"), None}

\* FindNodes(T).visit(x) for an x that is not the IR
RunFindNodesIn ==
  /\ op = "none"
  /\ \E T \in MatchClasses, x \in Searched(tree.tuple) :
       /\ match' = T
       /\ passed' = x
       /\ result' = FindNodes_visit(T, x, None)
  /\ op' = "FindNodesIn"
  /\ mapper' = <<>>
  /\ node' = None
  /\ UNCHANGED <<tree, nextId, written, self_rebuilt>>
  /\ UNCHANGED nonIrVars

\* The constructor calls made with a given body: for each class, calls that
\* pass its checks (with and without the optional arguments) and calls that
\* fail them.
CtorCalls(body) ==
  LET B == Tup(body)
      X == Expr("x")
      V == Tup(<<Expr("v")>>)
      S == Str("s")
      none == <<>>
      Call(c, a, k) == [cls |-> c, args |-> a, kwargs |-> k]
  IN <<Call("Loop", <<X, B>>, [bounds |-> Expr("r")]),
       Call("Loop", <<X, B, Expr("r")>>, [has_end_do |-> PyFalse, name |-> S]),
       Call("Loop", <<X, Lst(body), Expr("r")>>, [source |-> S]),
       Call("Loop", <<X, B>>, none),
       Call("Loop", <<X>>, [bounds |-> Expr("r")]),
       Call("WhileLoop", <<None, B>>, none),
       Call("WhileLoop", <<X, B>>, [pragma |-> S]),
       Call("WhileLoop", <<S, B>>, none),
       Call("Conditional", <<Tup(<<X>>), Tup(<<B>>), Tup(<<>>)>>, none),
       Call("Conditional", <<Tup(<<X>>), Tup(<<Tup(<<>>)>>), B>>, [inline |-> PyTrue]),
       Call("Conditional", <<Tup(<<X, X>>), Tup(<<B>>), Tup(<<>>)>>, none),
       Call("Conditional", <<Tup(<<S>>), Tup(<<B>>), Tup(<<>>)>>, none),
       Call("Conditional", <<Tup(<<X>>), Tup(<<B>>)>>, none),
       Call("Conditional", <<Tup(<<X, X>>), Str("ab"), B>>, none),
       Call("Conditional", <<Tup(<<X, X>>), Tup(<<B, Tup(<<>>)>>), Tup(<<>>)>>,
            [name |-> S]),
       Call("MultiConditional", <<X, Tup(<<V>>), Tup(<<B>>), Tup(<<>>)>>, none),
       Call("MultiConditional", <<X, Tup(<<V>>), Tup(<<B>>), B>>, [name |-> S]),
       Call("MultiConditional", <<X, Tup(<<Tup(<<S>>)>>), Tup(<<B>>), Tup(<<>>)>>, none),
       Call("Statement", <<X, Expr("y")>>, none),
       Call("Statement", <<X, Expr("y")>>, [ptr |-> PyTrue]),
       Call("Statement", <<X, Expr("y"), PyFalse, S>>, none),
       Call("Statement", <<S, Expr("y")>>, none),
       Call("MaskedStatement", <<X, B, Tup(<<>>)>>, none),
       Call("MaskedStatement", <<X, B, None>>, none),
       Call("Section", <<>>, none),
       Call("Section", <<>>, [body |-> B]),
       Call("Section", <<B>>, [label |-> S]),
       Call("Scope", <<>>, [body |-> B]),
       Call("Scope", <<B, [dict |-> "assoc"]>>, none),
       Call("Scope", <<B, S>>, none),
       Call("Declaration", <<V>>, none),
       Call("Declaration", <<V>>, [dimensions |-> Tup(<<Expr("n")>>)]),
       Call("Declaration", <<V>>, [external |-> PyTrue, dimensions |-> Tup(<<>>)]),
       Call("Declaration", <<Tup(<<S>>)>>, none),
       Call("DataDeclaration", <<X, V>>, none),
       Call("DataDeclaration", <<S, V>>, none),
       Call("DataDeclaration", <<None, V>>, none),
       Call("Import", <<S>>, none),
       Call("Import", <<S>>, [symbols |-> Tup(<<S>>), c_import |-> PyTrue]),
       Call("Import", <<S>>, [f_include |-> PyTrue]),
       Call("Import", <<S>>, [c_import |-> PyTrue, f_include |-> PyTrue]),
       Call("Interface", <<>>, [body |-> B]),
       Call("Interface", <<S, B>>, none),
       Call("Interface", <<>>, none),
       Call("Allocation", <<V>>, none),
       Call("Allocation", <<V>>, [data_source |-> X]),
       Call("Allocation", <<Tup(<<S>>)>>, none),
       Call("Deallocation", <<V>>, none),
       Call("Deallocation", <<X>>, none),
       Call("Nullify", <<V>>, none),
       Call("Nullify", <<Tup(<<S>>)>>, none),
       Call("CallStatement", <<S, V>>, none),
       Call("CallStatement", <<S, Tup(<<X, S>>)>>,
            [kwarguments |-> Tup(<<Tup(<<S, X>>)>>)]),
       Call("CallStatement", <<S, Tup(<<None>>)>>, none),
       Call("TypeDef", <<S, B>>, none),
       Call("TypeDef", <<S, B>>, [bind_c |-> PyTrue]),
       Call("TypeDef", <<S, B>>, [symbols |-> [table |-> NewId(0)]]),
       Call("TypeDef", <<S, None>>, none),
       Call("TypeDef", <<S>>, none),
       Call("Comment", <<>>, [text |-> S]),
       Call("Comment", <<>>, [txt |-> S])>>

\* The size of the IR up to which constructor calls take it as their body.
MaxCtorNodes == 3

\* cls(*args, **kwargs), with the IR built so far as the body.
ConstructNode ==
  /\ op = "none"
  /\ nextId <= MaxCtorNodes
  /\ \E i \in 1..Len(CtorCalls(<<>>)) :
       LET call == CtorCalls(tree.tuple)[i]
       IN /\ node' = Construct(call.cls, call.args, call.kwargs, NewId(nextId))
          /\ passed' = call
  /\ op' = "construct"
  /\ mapper' = <<>>
  /\ match' = "none"
  /\ result' = None
  /\ UNCHANGED <<tree, nextId, written, self_rebuilt>>
  /\ UNCHANGED nonIrVars

\* node.clone(), which is node._rebuild()
Clone ==
  /\ op = "construct"
  /\ IsNode(node)
  /\ op' = "clone"
  /\ result' = Rebuild(node, <<>>, <<>>)
  /\ UNCHANGED <<tree, nextId, node, mapper, match, passed, written, self_rebuilt>>
  /\ UNCHANGED nonIrVars

\* node._rebuild(*node.children)
RebuildChildren ==
  /\ op = "construct"
  /\ IsNode(node)
  /\ op' = "rebuild"
  /\ result' = Rebuild(node, Children(node), <<>>)
  /\ UNCHANGED <<tree, nextId, node, mapper, match, passed, written, self_rebuilt>>
  /\ UNCHANGED nonIrVars

\* The nodes a Section is edited with: one statement, a tuple of two.
Additions == {StatementHandle, SpliceHandle}

\* The positions insert is called with: each index of the body, one beyond
\* its end, and one counted from the end.
Positions(body) == -1 .. Len(body) + 1

\* The arguments of a call, with self as it was when the call was made.
Passed(self, x, pos) == [self |-> self, node |-> x, pos |-> pos]

\* section.append(x), section.insert(pos, x), section.prepend(x) on the
\* Section or Scope last constructed.
EditSection ==
  /\ op = "construct"
  /\ IsNode(node)
  /\ isinstance(node, "Section")
  /\ \E x \in Additions :
       \/ /\ op' = "append"
          /\ passed' = Passed(node, x, None)
          /\ node' = Section_append(node, x).self
          /\ result' = Section_append(node, x).ret
       \/ /\ op' = "prepend"
          /\ passed' = Passed(node, x, None)
          /\ node' = Section_prepend(node, x).self
          /\ result' = Section_prepend(node, x).ret
       \/ \E pos \in Positions(node.f.body.tuple) :
            /\ op' = "insert"
            /\ passed' = Passed(node, x, pos)
            /\ node' = Section_insert(node, pos, x).self
            /\ result' = Section_insert(node, pos, x).ret
  /\ UNCHANGED <<tree, nextId, mapper, match, written, self_rebuilt>>
  /\ UNCHANGED nonIrVars

\* The keyword arguments _update is called with: for every class a label,
\* and for the classes with checks values that pass them and values that
\* fail them.
UpdateCalls(n) ==
  {[label |-> Str("l")]} \cup
  CASE n.cls = "Import" -> {[f_include |-> PyTrue], [c_import |-> PyTrue],
                            [module |-> Str("m")]}
    [] n.cls = "Conditional" -> {[bodies |-> Tup(<<>>)], [name |-> Str("n")],
                                 [conditions |-> Tup(<<Str("s")>>)]}
    [] n.cls = "Statement" -> {[target |-> Expr("z")], [expr |-> Str("s")]}
    [] n.cls = "Loop" -> {[body |-> Tup(<<>>)], [bounds |-> None]}
    [] n.cls = "Scope" -> {[associations |-> Str("s")], [body |-> Tup(<<>>)]}
    [] OTHER -> {}

\* node._update(**kwargs) on the node last constructed.
UpdateNode ==
  /\ op = "construct"
  /\ IsNode(node)
  /\ \E kwargs \in UpdateCalls(node) :
       /\ passed' = [self |-> node, kwargs |-> kwargs]
       /\ node' = Node__update(node, <<>>, kwargs).self
       /\ result' = Node__update(node, <<>>, kwargs).ret
  /\ op' = "update"
  /\ UNCHANGED <<tree, nextId, mapper, match, written, self_rebuilt>>
  /\ UNCHANGED nonIrVars

\* The caller drops the result of the last operation.
Discard ==
  /\ op # "none"
  /\ NoOp
  /\ node' = None
  /\ UNCHANGED <<tree, nextId>>
  /\ UNCHANGED nonIrVars

Next ==
  \/ AddStatement
  \/ Wrap
  \/ RunTransformer
  \/ RunNestedTransformer
  \/ RunFindNodes
  \/ RunFindNodesIn
  \/ ConstructNode
  \/ Clone
  \/ RebuildChildren
  \/ EditSection
  \/ UpdateNode
  \/ Discard

Spec == Init /\ [][Next]_vars

----------------------------------------------------------------------------
(* The state machine of the comparisons: a caller compares two values.     *)

\* The bounds of a range: absent, a str, a Literal.
LowerValues == {None, Str(<<"1">>), Str(<<"2">>), Literal(Str(<<"1">>), None, None)}
UpperValues == {None, Str(<<"N">>), Str(<<"n">>), Literal(Str(<<"n">>), None, None)}
StepValues == {None, Str(<<"1">>), Str(<<"2">>)}

RangeValues ==
  {RangeIndex(l, u, st) : l \in LowerValues, u \in UpperValues, st \in StepValues}

\* The variables: a name in either case, no dimension or one, no parent or
\* one, no type or one.
NameValues == {Str(<<"J", "L">>), Str(<<"j", "l">>)}
DimensionValues ==
  {None, Tup(<<Str(<<"i">>)>>), Tup(<<RangeIndex(None, Str(<<"n">>), None)>>)}
RefValues == {None, Variable(Str(<<"v">>), None, None, None, None, None)}
TypeValues == {None, Str(<<"I">>)}
VariableValues ==
  {Variable(n, t, None, d, r, None) :
     n \in NameValues, t \in TypeValues, d \in DimensionValues, r \in RefValues}

\* The indices: a name in either case.
IndexValues == {Index(Str(<<"n">>)), Index(Str(<<"N">>))}

\* The operations compared: a negation, and sums over a range written in two
\* ways, with and without parentheses.
OperationValues ==
  {Operation(Tup(<<Str(<<"-">>)>>), Tup(<<Literal(Str(<<"1">>), None, None)>>), PyFalse)}
    \cup {Operation(Tup(<<Str(<<"+">>)>>),
                    Tup(<<Literal(Str(<<"1">>), None, None),
                          RangeIndex(l, Str(<<"n">>), None)>>), p) :
            l \in {None, Str(<<"1">>)}, p \in {PyFalse, PyTrue}}

\* The values compared: None, the bounds, the ranges, the variables, the
\* indices and the operations, and what the ranges and the variables are
\* written as, in either case.
Values ==
  {None, Str(<<"M">>), Literal(Str(<<"N">>), Str(<<"8">>), None)}
    \cup IndexValues \cup OperationValues
    \cup LowerValues \cup UpperValues \cup RangeValues
    \cup {RangeIndex_expr(r) : r \in RangeValues}
    \cup {upper(RangeIndex_expr(r)) : r \in RangeValues}
    \cup NameValues \cup VariableValues
    \cup {Variable_expr(v) : v \in VariableValues}
    \cup {upper(Variable_expr(v)) : v \in VariableValues}

\* left == right
Compare ==
  /\ answer = None
  /\ \E a, b \in Values :
       /\ left' = a
       /\ right' = b
       /\ answer' = PyEq(a, b)
  /\ UNCHANGED nonExprVars

MaxOperands == 2

\* The types of operands: none, and two type names.
OperandTypes == {None, Str(<<"I">>), Str(<<"R">>)}

\* The operands without operands of their own: a literal and a variable of
\* each type.
Leaves ==
  {Literal(Str(<<"1">>), None, t) : t \in OperandTypes}
    \cup {Variable(Str(<<"x">>), t, None, None, None, None) : t \in OperandTypes}

\* The operations of up to MaxOperands operands taken from a set.
OperationsOver(S) ==
  UNION {{Operation(Tup(<<Str(<<"+">>)>>), Tup(q), PyFalse) : q \in [1..n -> S]} :
           n \in 1..MaxOperands}

\* The operations whose type is read: over the leaves, and over the leaves
\* and the sums of one type or of two.
Operations ==
  OperationsOver(Leaves \cup
    {Operation(Tup(<<Str(<<"*">>)>>), Tup(<<a, b>>), PyTrue) :
       a, b \in {Literal(Str(<<"1">>), None, t) : t \in OperandTypes}})

\* operation.type
ReadType ==
  /\ answer = None
  /\ \E o \in Operations :
       /\ left' = o
       /\ right' = None
       /\ answer' = type(o)
  /\ UNCHANGED nonExprVars

\* The caller drops the answer.
Forget ==
  /\ answer # None
  /\ left' = None
  /\ right' = None
  /\ answer' = None
  /\ UNCHANGED nonExprVars

NextExpr ==
  \/ Compare
  \/ ReadType
  \/ Forget

SpecExpr == Init /\ [][NextExpr]_vars

----------------------------------------------------------------------------
(* The state machine of the reads of children: a caller makes a variable,  *)
(* may assign its dimensions, and reads its children.                      *)

MaxReads == 2

\* The dimensions a variable is made with or is assigned: none, a tuple, a
\* list.
ListValues == {Lst(<<Str(<<"i">>)>>), Lst(<<Str(<<"i">>), Str(<<"k">>)>>)}

\* The variable as it was made or last assigned to, and as it is now.
Held(v) == [made |-> v, now |-> v]

\* v = Variable(name, type=..., dimensions=..., ref=...)
MakeVariable ==
  /\ held = None
  /\ \E n \in NameValues, t \in TypeValues, r \in RefValues,
        d \in DimensionValues \cup ListValues \cup {Lst(<<>>)} :
       held' = Held(Variable(n, t, None, d, r, None))
  /\ reads' = <<>>
  /\ UNCHANGED nonReadVars

\* v.dimensions = dims, dims a list
AssignDimensions ==
  /\ held # None
  /\ reads = <<>>
  /\ \E d \in ListValues : held' = Held([held.now EXCEPT !.dimensions = d])
  /\ UNCHANGED reads
  /\ UNCHANGED nonReadVars

\* v.children
ReadChildren ==
  /\ held # None
  /\ Len(reads) < MaxReads
  /\ held' = [held EXCEPT !.now = Variable_children(held.now).self]
  /\ reads' = Append(reads, Variable_children(held.now).ret)
  /\ UNCHANGED nonReadVars

\* The caller drops the variable.
DropVariable ==
  /\ held # None
  /\ held' = None
  /\ reads' = <<>>
  /\ UNCHANGED nonReadVars

NextReads ==
  \/ MakeVariable
  \/ AssignDimensions
  \/ ReadChildren
  \/ DropVariable

SpecReads == Init /\ [][NextReads]_vars

----------------------------------------------------------------------------
(* The symbol tables (loki/types.py), after section 4.4 of the             *)
(* specification.  A name is the sequence of its segments: v%a is          *)
(* <<"v", "a">>.  A table has its entries, by name, and the table of the   *)
(* enclosing scope, or "none".                                             *)

\* The scopes: a subroutine, the module it uses, a derived-type definition.
Scopes == {"routine", "module", "typedef"}

\* A symbol table entry.
SymbolEntry(dtype, kind, shape, parameter, initial, typedef) ==
  [dtype |-> dtype, kind |-> kind, shape |-> shape, parameter |-> parameter,
   initial |-> initial, typedef |-> typedef]

\* The deferred type marker.
Deferred == SymbolEntry("DEFERRED", None, None, PyFalse, None, "none")

\* The entry of a one-segment name in a scope or the nearest enclosing scope
\* that has one, or the deferred marker.
RECURSIVE Resolve(_, _, _)

\* Resolve that looks in the scope alone: what a property about the
\* enclosing scopes must tell from it.
ResolveLocal(tabs, scope, n) ==
  IF scope = "none" THEN Deferred
  ELSE IF n \in DOMAIN tabs[scope].symbols THEN tabs[scope].symbols[n]
  ELSE Deferred

Resolve(tabs, scope, n) ==
  IF scope = "none" THEN Deferred
  ELSE IF n \in DOMAIN tabs[scope].symbols THEN tabs[scope].symbols[n]
  ELSE Resolve(tabs, tabs[scope].parent, n)

\* The entry a lookup of a name in a scope gives: the scope's own entry of
\* the whole name when it has one; else the leftmost segment's, and for a
\* qualified name whose leftmost segment is a variable of a derived type, the
\* entry of the rest in the type definition's table.
RECURSIVE TypeTable_lookup(_, _, _)
TypeTable_lookup(tabs, scope, n) ==
  IF n \in DOMAIN tabs[scope].symbols THEN tabs[scope].symbols[n]
  ELSE LET first == Resolve(tabs, scope, <<Head(n)>>)
       IN IF Len(n) = 1 THEN first
          ELSE IF first.dtype = "DERIVED" /\ first.typedef # "none"
          THEN TypeTable_lookup(tabs, first.typedef, Tail(n))
          ELSE Deferred

\* The tables after a lookup: a qualified name that resolved has an entry in
\* the scope it was looked up in.
TypeTable_registerNothing(tabs, scope, n) == tabs

TypeTable_register(tabs, scope, n) ==
  IF Len(n) > 1 /\ TypeTable_lookup(tabs, scope, n) # Deferred
  THEN [tabs EXCEPT ![scope].symbols = (n :> TypeTable_lookup(tabs, scope, n)) @@ @]
  ELSE tabs

\* The declarations of each scope: the routine's x, v of the derived type
\* and w of a type not defined; the module's k and x; the type's a and b.
Declarations(scope) ==
  CASE scope = "routine" ->
         {<<"x", SymbolEntry("REAL", Str("k"), None, PyFalse, None, "none")>>,
          <<"v", SymbolEntry("DERIVED", None, None, PyFalse, None, "typedef")>>,
          <<"w", SymbolEntry("DERIVED", None, None, PyFalse, None, "none")>>}
    [] scope = "module" ->
         {<<"k", SymbolEntry("INTEGER", None, None, PyTrue, Str("4"), "none")>>,
          <<"x", SymbolEntry("INTEGER", Str("k"), None, PyFalse, None, "none")>>,
          <<"d", SymbolEntry("INTEGER", Str("k"), None, PyFalse, None, "none")>>}
    [] scope = "typedef" ->
         {<<"a", SymbolEntry("REAL", Str("k"), Tup(<<Str(":")>>), PyFalse, None, "none")>>,
          <<"b", SymbolEntry("REAL", Str("k"), Tup(<<Str(":"), Str(":")>>), PyFalse, None, "none")>>}

\* The names looked up.
Names ==
  {<<"x">>, <<"k">>, <<"d">>, <<"v">>, <<"z">>, <<"a">>,
   <<"v", "a">>, <<"v", "b">>, <<"v", "z">>, <<"w", "a">>, <<"x", "a">>}

\* A declaration enters the table of its scope.
Declare ==
  /\ entry = None
  /\ \E scope \in Scopes : \E d \in Declarations(scope) :
       /\ <<d[1]>> \notin DOMAIN tables[scope].symbols
       /\ tables' = [tables EXCEPT ![scope].symbols = (<<d[1]>> :> d[2]) @@ @]
  /\ UNCHANGED <<query, entry>>
  /\ UNCHANGED nonTypeVars

\* The module that defines the routine's imports is attached to the routine.
Attach ==
  /\ entry = None
  /\ tables["routine"].parent = "none"
  /\ tables' = [tables EXCEPT !["routine"].parent = "module"]
  /\ UNCHANGED <<query, entry>>
  /\ UNCHANGED nonTypeVars

\* scope.lookup(name), in the routine or in the type definition
Lookup ==
  /\ entry = None
  /\ \E scope \in {"routine", "typedef"} : \E n \in Names :
       /\ query' = <<scope, n>>
       /\ entry' = TypeTable_lookup(tables, scope, n)
       /\ tables' = TypeTable_register(tables, scope, n)
  /\ UNCHANGED nonTypeVars

\* The caller drops the entry.
ForgetLookup ==
  /\ entry # None
  /\ query' = <<>>
  /\ entry' = None
  /\ UNCHANGED tables
  /\ UNCHANGED nonTypeVars

NextTypes ==
  \/ Declare
  \/ Attach
  \/ Lookup
  \/ ForgetLookup

SpecTypes == Init /\ [][NextTypes]_vars

----------------------------------------------------------------------------
(* Calls: arg_iter *)

MaxFormals == 3
MaxPositional == 3
MaxKeywords == 2

\* The names a routine declares its arguments with, in order.
FormalNames == <<"x", "y", "z", "u">>

Formal(i) == Variable(Str(<<FormalNames[i]>>), None, None, None, None, None)

\* The keywords of a call: the names declared, one of them in capitals, and
\* a name no routine declares.
Keywords == {Str(<<FormalNames[i]>>) : i \in 1..MaxFormals} \cup {Str(<<"X">>), Str(<<"w">>)}

\* The i-th positional and the j-th keyword argument of a call.
Positional(i) == Expr("p" \o ToString(i))
Keyword(j) == Expr("k" \o ToString(j))

\* context.arg_iter(call) for a routine of up to MaxFormals arguments and a
\* call of up to MaxPositional positional and MaxKeywords keyword arguments.
ArgIter ==
  /\ pairs = None
  /\ \E nf \in 0..MaxFormals, np \in 0..MaxPositional, nk \in 0..MaxKeywords :
       \E kws \in [1..nk -> Keywords] :
         LET context == CallContext([arguments |-> [i \in 1..nf |-> Formal(i)]], PyTrue)
             stmt == Construct("CallStatement",
                       <<Str("f"), Tup([i \in 1..np |-> Positional(i)])>>,
                       [kwarguments |-> Tup([j \in 1..nk |-> Tup(<<kws[j], Keyword(j)>>)])],
                       NewId(0))
         IN /\ callee' = context
            /\ callsite' = stmt
            /\ pairs' = CallContext_arg_iter(context, stmt)
  /\ UNCHANGED nonCallVars

\* The caller drops the pairs.
ForgetCall ==
  /\ pairs # None
  /\ callee' = None
  /\ callsite' = None
  /\ pairs' = None
  /\ UNCHANGED nonCallVars

NextCalls ==
  \/ ArgIter
  \/ ForgetCall

SpecCalls == Init /\ [][NextCalls]_vars

----------------------------------------------------------------------------
(* Source files: reading a file and regenerating its text *)

MaxSegments == 3

\* What a file is made of, top to bottom: an empty line, a comment line, a
\* module of two lines, a subroutine of four (its statement, a declaration,
\* an executable statement, its end).
SegmentKinds == {"blank", "comment", "module", "subroutine"}

\* The lines of the k-th segment of a file; the number in a line tells the
\* lines of one segment from those of another.
SegmentLines(kind, k) ==
  LET l(w) == <<w \o ToString(k), NL>>
  IN CASE kind = "blank" -> <<(<<NL>>)>>
       [] kind = "comment" -> <<l("! c")>>
       [] kind = "module" -> <<l("module m"), l("end module m")>>
       [] kind = "subroutine" ->
            <<l("subroutine s"), l("integer :: i"), l("i = "), l("end subroutine s")>>

\* The lines of the file before its k-th segment.
RECURSIVE LinesBefore(_, _)
LinesBefore(kinds, k) ==
  IF k = 1 THEN 0
  ELSE LinesBefore(kinds, k - 1) + Len(SegmentLines(kinds[k - 1], k - 1))

\* The raw content of a file of the given segments; the last line of the
\* file has its terminator or not.
RawOf(kinds, terminated) ==
  LET t == Concat([k \in 1..Len(kinds) |-> Concat(SegmentLines(kinds[k], k))])
  IN IF terminated \/ t = <<>> THEN t ELSE SubSeq(t, 1, Len(t) - 1)

\* The AST the parser gives for it: per module and subroutine its first and
\* last line, and for a subroutine those of its body (the declaration and
\* the executable statement) and of its specification (the declaration).
AstOf(kinds) ==
  LET unit(k) ==
        LET first == LinesBefore(kinds, k) + 1
        IN IF kinds[k] = "module"
           THEN [tag |-> "module", name |-> "m" \o ToString(k),
                 line_begin |-> first, line_end |-> first + 1]
           ELSE [tag |-> kinds[k], name |-> "s" \o ToString(k),
                 line_begin |-> first, line_end |-> first + 3,
                 body |-> [line_begin |-> first + 1, line_end |-> first + 2],
                 spec |-> [line_begin |-> first + 1, line_end |-> first + 1]]
  IN SelectSeq([k \in 1..Len(kinds) |-> unit(k)],
               LAMBDA u : u.tag \in {"module", "subroutine"})

\* FortranSourceFile(filename).source for a file of up to MaxSegments
\* segments.
ReadSource ==
  /\ text = None
  /\ \E n \in 0..MaxSegments, terminated \in BOOLEAN :
       \E kinds \in [1..n -> SegmentKinds] :
         LET f == FortranSourceFile(RawOf(kinds, terminated), AstOf(kinds))
         IN /\ file' = f
            /\ text' = FortranSourceFile_source(f)
  /\ UNCHANGED nonFileVars

\* The caller drops the file.
ForgetSource ==
  /\ text # None
  /\ file' = None
  /\ text' = None
  /\ UNCHANGED nonFileVars

NextSource ==
  \/ ReadSource
  \/ ForgetSource

SpecSource == Init /\ [][NextSource]_vars

----------------------------------------------------------------------------
(* The state machine of the read-only visits: a caller makes a visitor and *)
(* visits objects with it, one after the other.                            *)

\* The handlers a subclass of Visitor adds: none, or one for one class.
OwnHandlers == {{}, {"Statement"}, {"Loop"}, {"Section"}}

\* The objects a caller visits: a statement, nodes with nodes in their body,
\* a tuple of nodes, None, and the sections of a source file.
VisitStatement(k) == NewStatement(TargetNames[k], "rhs", k)
VisitNode(cls, body, k) ==
  Construct(cls, <<>>,
            [body |-> Tup(body)]
              @@ (IF cls = "Loop" THEN [variable |-> Expr("i"), bounds |-> Expr("r")] ELSE <<>>),
            NewId(k))
VisitFile ==
  FortranSourceFile(RawOf(<<"module", "subroutine">>, TRUE), AstOf(<<"module", "subroutine">>))
Visitees ==
  {VisitStatement(1), None, Tup(<<VisitStatement(1), VisitStatement(2)>>),
   VisitFile.modules[1], VisitFile.subroutines[1], VisitFile.subroutines[1].header,
   VisitNode("Section", <<>>, 4),
   VisitNode("Section", <<VisitNode("Loop", <<VisitStatement(1)>>, 3), VisitStatement(2)>>, 4),
   VisitNode("Scope", <<VisitStatement(1), VisitStatement(2)>>, 4),
   VisitNode("Loop", <<VisitStatement(1), VisitStatement(2)>>, 4)}

\* v = V() for a subclass V of Visitor
MakeVisitor ==
  /\ visitor = None
  /\ \E own \in OwnHandlers :
       visitor' = [own |-> own, handlers |-> Visitor___init__(own)]
  /\ dispatched' = None
  /\ UNCHANGED nonVisitVars

\* v.visit(o)
Visit ==
  /\ visitor # None
  /\ \E o \in Visitees :
       LET done == Visitor_visit(visitor.handlers, o)
       IN /\ visitor' = [visitor EXCEPT !.handlers = done.handlers]
          /\ dispatched' = [o |-> o, ret |-> done.ret, calls |-> done.calls]
  /\ UNCHANGED nonVisitVars

\* The caller drops the visitor.
DropVisitor ==
  /\ visitor # None
  /\ visitor' = None
  /\ dispatched' = None
  /\ UNCHANGED nonVisitVars

NextVisit ==
  \/ MakeVisitor
  \/ Visit
  \/ DropVisitor

SpecVisit == Init /\ [][NextVisit]_vars

----------------------------------------------------------------------------
(* What the properties are stated with: the shape of an IR, which tells    *)
(* which node stands where without telling a node from its rebuilt copy.   *)

\* The number of the object a node is, or was rebuilt from.
Origin(n) == n.id.obj

\* A node's class, origin and the shapes of its traversable fields in
\* declaration order; a tuple's or list's item shapes; a leaf as it is.
RECURSIVE Shape(_)
Shape(v) ==
  IF IsNode(v)
  THEN [node |-> Origin(v), cls |-> v.cls,
        fields |-> [i \in 1..Len(Traversable(v.cls)) |-> Shape(v.f[Traversable(v.cls)[i]])]]
  ELSE IF IsSeqValue(v) THEN [seq |-> [i \in 1..Len(Items(v)) |-> Shape(Items(v)[i])]]
  ELSE [leaf |-> v]

IsNodeShape(s) == "node" \in DOMAIN s
IsSeqShape(s) == "seq" \in DOMAIN s

\* The shape s with, in every sequence, each node of origin k replaced by the
\* shapes put, followed by the node itself when keep holds; nothing below such
\* a node is touched.
RECURSIVE Rewrite(_, _, _, _)
RECURSIVE RewriteItems(_, _, _, _)
RewriteItems(q, k, put, keep) ==
  IF q = <<>> THEN <<>>
  ELSE (IF IsNodeShape(Head(q)) /\ Head(q).node = k
        THEN put \o (IF keep THEN <<Head(q)>> ELSE <<>>)
        ELSE <<Rewrite(Head(q), k, put, keep)>>) \o RewriteItems(Tail(q), k, put, keep)
Rewrite(s, k, put, keep) ==
  IF IsNodeShape(s)
  THEN [s EXCEPT !.fields = [i \in 1..Len(s.fields) |-> Rewrite(s.fields[i], k, put, keep)]]
  ELSE IF IsSeqShape(s) THEN [seq |-> RewriteItems(s.seq, k, put, keep)]
  ELSE s

\* The node of origin k among the nodes of v (pre-order), or None.
NodeOfOrigin(v, k) ==
  LET q == NodesOf(v)
      hit == {i \in 1..Len(q) : Origin(q[i]) = k}
  IN IF hit = {} THEN None ELSE q[CHOOSE i \in hit : \A j \in hit : i <= j]

\* The mapping has these keys and no other.
KeysAre(S) == DOMAIN mapper = S

\* The nodes a visitor reaches from v: a node, then what its children hold.
RECURSIVE ReachedOf(_)
RECURSIVE ReachedOfSeq(_)
ReachedOfSeq(q) == IF q = <<>> THEN <<>> ELSE ReachedOf(Head(q)) \o ReachedOfSeq(Tail(q))
ReachedOf(v) ==
  IF IsNode(v) THEN <<v>> \o ReachedOfSeq(Children(v))
  ELSE IF IsSeqValue(v) THEN ReachedOfSeq(Items(v))
  ELSE <<>>

\* The nodes the last operation was about: the one built, the ones of the IR.
NodesBuilt == Range(NodesOf(tree)) \cup (IF IsNode(node) THEN {node} ELSE {})

----------------------------------------------------------------------------
(* Node.children and Node._rebuild                                         *)

\* C1: every node built from arguments that pass its constructor's checks
\* has as many children as its type declares traversable fields, one entry
\* per field in declaration order (the field's value, or the empty list that
\* stands for an absent one), and none when the type declares none.
C1_ChildrenPerTraversable ==
  \A n \in NodesBuilt :
    /\ Len(Children(n)) = Len(Traversable(n.cls))
    /\ \A i \in 1..Len(Traversable(n.cls)) :
         \/ Children(n)[i] = n.f[Traversable(n.cls)[i]]
         \/ ~Truthy(n.f[Traversable(n.cls)[i]]) /\ Children(n)[i] = Lst(<<>>)

\* C2: node.clone() and node._rebuild(*node.children) give a new node of the
\* same type in which every field has the value it has in the original,
\* constructor defaults included.
C2_RebuildKeepsFields ==
  op \in {"clone", "rebuild"} =>
    /\ IsNode(result)
    /\ result.id # node.id
    /\ result.cls = node.cls
    /\ result.f = node.f

----------------------------------------------------------------------------
(* Transformer, NestedTransformer and FindNodes                            *)

\* C3: a Transformer with an empty mapping returns the tree it was given:
\* the same node objects, hence the same types, order and field values.
C3_EmptyMappingIdentity ==
  (op = "Transformer" /\ KeysAre({})) => result = tree

\* The nodes FindNodes returned.
Found == IF IsList(result) THEN result.list ELSE <<>>

\* C4: FindNodes(T).visit(tree) returns the nodes of the tree that are
\* instances of T, at any depth and in any position, each once, in pre-order.
C4_FindNodesPreOrder ==
  op = "FindNodes" =>
    Found = SelectSeq(NodesOf(tree), LAMBDA n : isinstance(n, match))

\* C5: a Transformer whose mapping sends one node of a body to None returns
\* a tree in which that body holds the other nodes of the original body in
\* their order and nothing for the removed node, all else being in place.
C5_RemovalKeepsSiblings ==
  op = "Transformer" =>
    \A k \in DOMAIN mapper :
      (KeysAre({k}) /\ mapper[k] = None) =>
        /\ ~IsRaise(result)
        /\ Shape(result) = Rewrite(Shape(tree), k.obj, <<>>, FALSE)

\* The shapes of the two statements of the sequence a node is mapped to.
SpliceShapes == [i \in 1..Len(SpliceHandle.tuple) |-> Shape(SpliceHandle.tuple[i])]

WithoutSplice(s) ==
  Rewrite(Rewrite(s, Origin(SpliceHandle.tuple[1]), <<>>, FALSE),
          Origin(SpliceHandle.tuple[2]), <<>>, FALSE)

NodeHandles == {StatementHandle, LoopHandle}

\* C7: under Transformer a node mapped to one replacement node is replaced
\* wholesale: in its place stands a fresh node of the replacement's type with
\* the replacement's own field values, and entries of the mapping for nodes
\* beneath the original have no effect.
C7_ReplacedWholesale ==
  op = "Transformer" =>
    \A k \in DOMAIN mapper :
      LET n == NodeOfOrigin(tree, k.obj)
          h == mapper[k]
          r == NodeOfOrigin(result, Origin(h))
      IN (/\ h \in NodeHandles
          /\ DOMAIN mapper \subseteq IdsOf(n)) =>
           /\ ~IsRaise(result)
           /\ Shape(result) = Rewrite(Shape(tree), k.obj, <<Shape(h)>>, FALSE)
           /\ IsNode(r)
           /\ r.id # h.id
           /\ r.cls = h.cls
           /\ r.f = h.f

\* C8: under NestedTransformer a node mapped to one replacement node has in
\* its place a node of the replacement's type whose traversable fields are
\* the replacement's own.
C8_NestedReplacementOwnFields ==
  op = "NestedTransformer" =>
    \A k \in DOMAIN mapper :
      (KeysAre({k}) /\ mapper[k] \in NodeHandles) =>
        /\ ~IsRaise(result)
        /\ Shape(result) = Rewrite(Shape(tree), k.obj, <<Shape(mapper[k])>>, FALSE)

\* What the mapping puts in a body for a node: nothing, or the replacement.
PutFor(h) == IF h = None THEN <<>> ELSE <<Shape(h)>>

\* C9: with an outer Loop and a Statement of its body both keys of the
\* mapping, NestedTransformer returns for the loop a node whose body shows
\* the statement's rewrite, and Transformer returns for it a node on which
\* the statement's entry was not applied.
C9_NestedShowsInnerRewrite ==
  op = "NestedTransformer" =>
    \A l, s \in DOMAIN mapper :
      LET outer == NodeOfOrigin(tree, l.obj)
          inner == NodeOfOrigin(tree, s.obj)
          nested == NodeOfOrigin(result, Origin(LoopHandle))
          plain == NodeOfOrigin(Transformer_visit(mapper, FALSE, tree), Origin(LoopHandle))
      IN (/\ KeysAre({l, s})
          /\ outer.cls = "Loop"
          /\ inner.cls = "Statement"
          /\ inner \in Range(outer.f.body.tuple)
          /\ mapper[l] = LoopHandle
          /\ mapper[s] \in {None, StatementHandle}) =>
           /\ IsNode(nested)
           /\ Shape(nested.f.body) =
                Rewrite(Shape(outer.f.body), s.obj, PutFor(mapper[s]), FALSE)
           /\ IsNode(plain)
           /\ Shape(plain) = Shape(LoopHandle)

----------------------------------------------------------------------------
(* RangeIndex.__eq__                                                       *)

\* The range is trivial: lower absent or equal to '1', step absent or equal
\* to '1', upper present.
Trivial(r) ==
  /\ r.lower = None \/ PyEq(r.lower, Str(<<"1">>)) = PyTrue
  /\ r.step = None \/ PyEq(r.step, Str(<<"1">>)) = PyTrue
  /\ r.upper # None

\* The triples (lower, upper, step) of two ranges are equal.
SameTriple(r, x) ==
  /\ PyEq(r.lower, x.lower) = PyTrue
  /\ PyEq(r.upper, x.upper) = PyTrue
  /\ PyEq(r.step, x.step) = PyTrue

\* C10: for a trivial RangeIndex r, r == x gives for every x what
\* r.upper == x gives, so that RangeIndex(None, 'N', None) == 'N' is true;
\* any other RangeIndex is equal to a str when its rendering is, ignoring
\* case, and to a RangeIndex when their triples (lower, upper, step) are.
C10_RangeIndexEq ==
  (answer # None /\ IsRangeIndex(left)) =>
    /\ Trivial(left) => answer = PyEq(left.upper, right)
    /\ (~Trivial(left) /\ IsStr(right)) =>
         answer = Bool(upper(RangeIndex_expr(left)).str = upper(right).str)
    /\ (~Trivial(left) /\ IsRangeIndex(right)) =>
         answer = Bool(SameTriple(left, right))
    /\ (left = RangeIndex(None, Str(<<"N">>), None) /\ right = Str(<<"N">>)) =>
         answer = PyTrue

\* RangeIndex(None, 'N', None) was compared to 'N'.
C10_Witness ==
  /\ left = RangeIndex(None, Str(<<"N">>), None)
  /\ right = Str(<<"N">>)
  /\ answer = PyTrue

----------------------------------------------------------------------------
(* Variable.__eq__                                                         *)

\* C11: a Variable v is equal to a str s exactly when s is v's name ignoring
\* letter case, whatever dimensions or parent v has.
C11_VariableEqName ==
  (answer # None /\ IsVariable(left) /\ IsStr(right)) =>
    answer = Bool(upper(left.name).str = upper(right).str)

----------------------------------------------------------------------------
(* Symbol lookup                                                           *)

\* The scope and the name of the last lookup.
QueryScope == query[1]
QueryName == query[2]

\* C12: a lookup never raises; a name the scope does not declare and an
\* attached enclosing scope does resolves to that declaration; a name
\* declared nowhere in the chain resolves to the deferred marker; so that a
\* name deferred before the module is attached resolves to the module's
\* declaration after.
C12_LookupFallback ==
  entry # None =>
    /\ "dtype" \in DOMAIN entry
    /\ Len(QueryName) = 1 =>
         LET here == tables[QueryScope]
             outer == here.parent
         IN IF QueryName \in DOMAIN here.symbols
            THEN entry = here.symbols[QueryName]
            ELSE IF outer # "none" /\ QueryName \in DOMAIN tables[outer].symbols
            THEN entry = tables[outer].symbols[QueryName]
            ELSE entry = Deferred

\* k, which the module alone declares, was looked up in the routine after
\* the module was attached, and gave the module's declaration.
C12_Witness ==
  /\ query = <<"routine", <<"k">>>>
  /\ tables["routine"].parent = "module"
  /\ <<"k">> \notin DOMAIN tables["routine"].symbols
  /\ entry # None
  /\ entry # Deferred
  /\ entry.parameter = PyTrue

\* C13: for v declared in the routine with a derived type whose definition
\* has the member looked up, the lookup of v%member in the routine gives the
\* entry the member has in the type definition's table, not the deferred
\* marker, and leaves that entry under the name v%member in the routine's
\* table, the type definition's table being another table, which has no such
\* entry.
C13_QualifiedMember ==
  (/\ entry # None
   /\ QueryScope = "routine"
   /\ Len(QueryName) = 2
   /\ <<QueryName[1]>> \in DOMAIN tables["routine"].symbols
   /\ tables["routine"].symbols[<<QueryName[1]>>].dtype = "DERIVED"
   /\ tables["routine"].symbols[<<QueryName[1]>>].typedef # "none"
   /\ <<QueryName[2]>> \in
        DOMAIN tables[tables["routine"].symbols[<<QueryName[1]>>].typedef].symbols) =>
    LET typedef == tables["routine"].symbols[<<QueryName[1]>>].typedef
    IN /\ entry # Deferred
       /\ entry = tables[typedef].symbols[<<QueryName[2]>>]
       /\ QueryName \in DOMAIN tables["routine"].symbols
       /\ tables["routine"].symbols[QueryName] = entry
       /\ typedef # "routine"
       /\ QueryName \notin DOMAIN tables[typedef].symbols
       /\ tables[typedef] # tables["routine"]

\* v%a was looked up in the routine, with v of the derived type and a and b
\* its members.
C13_Witness ==
  /\ query = <<"routine", <<"v", "a">>>>
  /\ entry # None
  /\ entry.shape = Tup(<<Str(":")>>)
  /\ {<<"a">>, <<"b">>} \subseteq DOMAIN tables["typedef"].symbols
  /\ <<"v", "a">> \in DOMAIN tables["routine"].symbols

----------------------------------------------------------------------------
(* Section.append, Section.insert, Section.prepend *)

Edited == op \in {"append", "insert", "prepend"}

\* The body an edit is to give: the nodes passed, as a tuple, after the body,
\* before it, or between its first k and its other entries, where k is pos,
\* counted from the end when negative and held within the body.
EditedBody ==
  LET body == passed.self.f.body.tuple
      new == IF IsTuple(passed.node) THEN passed.node.tuple ELSE <<passed.node>>
      k == IF op = "append" THEN Len(body)
           ELSE IF op = "prepend" THEN 0
           ELSE IF passed.pos < 0
                THEN (IF Len(body) + passed.pos < 0 THEN 0 ELSE Len(body) + passed.pos)
                ELSE (IF passed.pos > Len(body) THEN Len(body) ELSE passed.pos)
  IN Tup(SubSeq(body, 1, k) \o new \o SubSeq(body, k + 1, Len(body)))

\* C14: Section.append, Section.insert and Section.prepend hand back a node
\* built by rebuild whose body has the new node(s) at the end, at the index,
\* at the front; the Section they were called on keeps the body it had.
C14_EditHandsBackRebuilt ==
  Edited =>
    /\ IsNode(result)
    /\ result.cls = passed.self.cls
    /\ result.id # passed.self.id
    /\ result.f.body = EditedBody
    /\ node = passed.self

\* C14, as the code has it: the edits are made in place by _update.  The
\* call returns None; the Section it was called on is the same object, its
\* body and its stored body argument are a new tuple with the node(s) passed
\* at the end, at the index (counted from the end when negative, held within
\* the body) or at the front, and its other fields and stored arguments are
\* as they were.
C14_EditInPlace ==
  Edited =>
    /\ result = None
    /\ node.id = passed.self.id
    /\ node.cls = passed.self.cls
    /\ node.f = [passed.self.f EXCEPT !.body = EditedBody]
    /\ node.args = [passed.self.args EXCEPT !.body = EditedBody]

\* An insert into the middle of a body of two nodes has been made.
C14_Witness ==
  /\ op = "insert"
  /\ Len(passed.self.f.body.tuple) = 2
  /\ passed.pos = 1
  /\ Len(node.f.body.tuple) > 2
  /\ node.f.body.tuple[1] = passed.self.f.body.tuple[1]
  /\ node.f.body.tuple[2] # passed.self.f.body.tuple[2]

----------------------------------------------------------------------------
(* Constructor checks *)

\* The arguments of the constructor call last made, bound by position and
\* by keyword, with the defaults of the signature.
Bound ==
  Update(ZipDict(ArgNames(passed.cls), passed.args), passed.kwargs)
    @@ Defaults(passed.cls)

\* The call gives a Conditional branches that do not match its conditions,
\* or a condition that is not an expression.
BadConditional ==
  /\ passed.cls = "Conditional"
  /\ {"conditions", "bodies", "else_body"} \subseteq DOMAIN Bound
  /\ \/ PyLen(Bound.bodies) # PyLen(Bound.conditions)
     \/ ~AllExpressions(Bound.conditions)

\* The call gives an Import both kinds of include.
BadImport ==
  /\ passed.cls = "Import"
  /\ Truthy(Bound.c_import) /\ Truthy(Bound.f_include)

\* A call that breaks the shape contract raises and gives no node.
FailsAtOnce ==
  op = "construct" =>
    /\ BadConditional => node = AssertionError
    /\ BadImport => node = Raise("ValueError")

\* Every node there is: in the IR, the node last constructed or edited and
\* the nodes under it, and the nodes of the last result.
Existing == Range(NodesOf(tree)) \cup Range(NodesOf(node)) \cup Range(NodesOf(result))

\* Every Conditional has one branch per condition and every Import is of
\* one kind at most.
ShapeKept ==
  \A n \in Existing :
    /\ n.cls = "Conditional" => Len(n.f.bodies.tuple) = Len(n.f.conditions.tuple)
    /\ n.cls = "Import" => ~(Truthy(n.f.c_import) /\ Truthy(n.f.f_include))

\* C15: a constructor call that violates the shape contract fails at once
\* and produces no node (Conditional: assertion; Import with both c_import
\* and f_include: ValueError), so every Conditional that exists has
\* len(bodies) = len(conditions) and no Import that exists has both flags.
C15_ShapeContracts == FailsAtOnce /\ ShapeKept

----------------------------------------------------------------------------
(* CallContext.arg_iter *)

Formals == callee.routine.arguments
Actuals == callsite.f.arguments.tuple
KeywordActuals == callsite.f.kwarguments.tuple

\* The positions in the signature of the arguments of a given name.
Declared(k) == {i \in 1..Len(Formals) : Formals[i].name = k}

\* The pairs are the positional arguments with the declared arguments of
\* their positions, in order, then each keyword argument with the declared
\* argument of its name; no declared argument is in two pairs.
PairedOnce ==
  /\ pairs.raise = None
  /\ Len(pairs.items) = Len(Actuals) + Len(KeywordActuals)
  /\ \A i \in 1..Len(Actuals) :
       i <= Len(Formals) /\ pairs.items[i] = <<Formals[i], Actuals[i]>>
  /\ \A j \in 1..Len(KeywordActuals) :
       \E i \in Declared(KeywordActuals[j].tuple[1]) :
         pairs.items[Len(Actuals) + j] = <<Formals[i], KeywordActuals[j].tuple[2]>>
  /\ \A i, j \in 1..Len(pairs.items) :
       i # j => pairs.items[i][1] # pairs.items[j][1]

Matching ==
  /\ Len(Actuals) <= Len(Formals)
  /\ \A j \in 1..Len(KeywordActuals) :
       /\ \E i \in Declared(KeywordActuals[j].tuple[1]) : i > Len(Actuals)
       /\ \A l \in 1..Len(KeywordActuals) :
            l # j => KeywordActuals[l].tuple[1] # KeywordActuals[j].tuple[1]

----------------------------------------------------------------------------
(* FortranSourceFile.source *)

\* C17: for a file on which nothing has been replaced or rewritten, the
\* regenerated text is the raw content of the file, byte for byte, the text
\* before, between and after the modules and subroutines and their order
\* included.
C17_SourceIsRaw == text # None => text = file.raw_source

----------------------------------------------------------------------------
(* Operation.type *)

Mixed == [mixed |-> TRUE]

\* The type an expression is to have: that of a literal or a variable is
\* the one it was given; that of an operation is the one type of all its
\* operands, and mixed when they are not of one type.
RECURSIVE TypeMeant(_)
TypeMeant(o) ==
  IF ~IsOperation(o) THEN o.type
  ELSE LET types == {TypeMeant(o.operands.tuple[i]) : i \in 1..Len(o.operands.tuple)}
       IN IF Cardinality(types) = 1 /\ Mixed \notin types
          THEN CHOOSE t \in types : TRUE
          ELSE Mixed

\* C18: the type of an Operation whose operands all have the type t is t;
\* reading the type of an Operation whose operands are not all of one type
\* fails with an assertion failure.
C18_OperationType ==
  (answer # None /\ IsOperation(left)) =>
    answer = IF TypeMeant(left) = Mixed THEN AssertionError ELSE TypeMeant(left)

----------------------------------------------------------------------------
(* FindNodes on any input *)

\* What the last search was run on.
SearchedIn == IF op = "FindNodes" THEN tree ELSE passed

\* C19: FindNodes(T).visit(x) gives an ordered sequence for every x, and
\* the empty sequence when nothing matches (x an empty tuple, a tuple or
\* list that holds no node, an object that is no node): never None, never
\* an exception.
C19_FindNodesSequence ==
  op \in {"FindNodes", "FindNodesIn"} =>
    /\ IsList(result)
    /\ (\A n \in Range(NodesOf(SearchedIn)) : ~isinstance(n, match)) =>
         result = Lst(<<>>)

----------------------------------------------------------------------------
(* A pass leaves its input alone *)

PassRun == op \in {"Transformer", "NestedTransformer"}

\* The identities of the nodes the caller holds when a pass is run: the
\* nodes of the IR and the nodes the mapping gives.
InputIds ==
  IdsOf(tree) \cup UNION {IdsOf(mapper[k]) : k \in DOMAIN mapper}

FirstInChain(own, o) ==
  LET table == Visitor___init__(own)
      with == {i \in 1..Len(Mro(o)) : Mro(o)[i] \in DOMAIN table}
  IN table[Mro(o)[CHOOSE i \in with : \A j \in with : i <= j]]

\* C21: whatever the visitor visited before, a visit calls for its visitee
\* the handler of the visitee's own class if the visitor has one, and
\* otherwise the first handler along the ancestor chain of that class: the
\* handler a fresh visitor of the same class would call.
C21_DispatchByTypeAlone ==
  (visitor # None /\ dispatched # None) =>
    /\ dispatched.calls # <<>>
    /\ dispatched.calls[1].o = dispatched.o
    /\ dispatched.calls[1].meth = FirstInChain(visitor.own, dispatched.o)

\* The nodes that stand in the body of a node.
BodyNodes(o) ==
  IF "body" \in DOMAIN o.f /\ IsSeqValue(o.f.body)
  THEN SelectSeq(Items(o.f.body), IsNode)
  ELSE <<>>

\* How many times a visit called a handler with a visitee.
TimesCalled(meth, k) ==
  Cardinality({i \in 1..Len(dispatched.calls) :
                 dispatched.calls[i] = [meth |-> meth, o |-> k]})

\* C22: with a visitor whose class adds to Visitor a handler for one class
\* of nodes only, the visit of a node that the default handler takes calls
\* the added handler once for every node of that class in the body of the
\* visited node; and the visit of an object that only the handler of plain
\* objects takes gives default_retval().
C22_DefaultRecursesIntoChildren ==
  (visitor # None /\ dispatched # None) =>
    /\ \A T \in visitor.own :
         (visitor.own = {T} /\ FirstInChain(visitor.own, dispatched.o) = "visit_Node") =>
           \A k \in Range(BodyNodes(dispatched.o)) :
             k.cls = T => TimesCalled("visit_" \o T, k) = 1
    /\ FirstInChain(visitor.own, dispatched.o) = "visit_object" =>
         dispatched.ret = Visitor_default_retval

(***************************************************************************)
(* Removal beneath nested tuples                                           *)
(***************************************************************************)

\* The node of origin k stands in a branch of the bodies of the Conditional c.
InBranch(c, k) ==
  \E b \in 1..Len(c.f.bodies.tuple) :
    /\ IsSeqValue(c.f.bodies.tuple[b])
    /\ \E i \in 1..Len(Items(c.f.bodies.tuple[b])) :
         /\ IsNode(Items(c.f.bodies.tuple[b])[i])
         /\ Origin(Items(c.f.bodies.tuple[b])[i]) = k

Conditionals(v) == {c \in Range(NodesOf(v)) : c.cls = "Conditional"}

\* C23: a Transformer or NestedTransformer whose mapping sends to None one
\* node that stands in a branch of a Conditional's bodies does not fail; its
\* result is the IR without that node, every tuple around the branch having
\* as many entries as before; and every Conditional of the result has as
\* many bodies as conditions.
C23_NestedDropKeepsBranches ==
  op \in {"Transformer", "NestedTransformer"} =>
    \A k \in DOMAIN mapper :
      (/\ KeysAre({k})
       /\ mapper[k] = None
       /\ \E c \in Conditionals(tree) : InBranch(c, k.obj)) =>
        /\ ~IsRaise(result)
        /\ Shape(result) = Rewrite(Shape(tree), k.obj, <<>>, FALSE)
        /\ \A c \in Conditionals(result) :
             Len(c.f.bodies.tuple) = Len(c.f.conditions.tuple)

(***************************************************************************)
(* In-place updates                                                        *)
(***************************************************************************)

InPlaceOps == {"update", "append", "prepend", "insert"}

\* C24: an in-place update that raises leaves the node it was called on as
\* it was before the call, its fields and its stored arguments alike, so
\* that a rebuild of the node from its stored arguments still succeeds, with
\* the arguments of before the call.
C24_FailedUpdateLeavesNode ==
  (op \in InPlaceOps /\ IsRaise(result)) =>
    /\ node.f = passed.self.f
    /\ node.args = passed.self.args
    /\ ~IsRaise(Rebuild(node, <<>>, <<>>))
    /\ Rebuild(node, <<>>, <<>>).args = passed.self.args

\* C25: an in-place update with keyword arguments that succeeds keeps the
\* node the object it was, gives each named field the value passed for it
\* and leaves every other field, those at their constructor default too,
\* with the value of before the call; afterwards a rebuild from the stored
\* arguments has the fields the node has.
C25_UpdateKeepsOtherFields ==
  (op = "update" /\ ~IsRaise(result)) =>
    /\ node.id = passed.self.id
    /\ \A k \in DOMAIN passed.kwargs : node.f[k] = passed.kwargs[k]
    /\ \A k \in DOMAIN passed.self.f \ DOMAIN passed.kwargs : node.f[k] = passed.self.f[k]
    /\ ~IsRaise(Rebuild(node, <<>>, <<>>))
    /\ Rebuild(node, <<>>, <<>>).f = node.f

(***************************************************************************)
(* The text regions of a subroutine                                        *)
(***************************************************************************)

\* The lines a..b of the file last read, counted from 1, both included.
FileLines(a, b) == Concat(SubSeq(splitlines(file.raw_source), a, b))

\* C26: wherever in its file a subroutine starts, its declarations are the
\* lines of the file from the first to the last line of its specification
\* node, its header the lines of the routine before them, its body the lines
\* after them up to the last line of its body node, its trailer the rest of
\* the routine; and the four in this order make up the text of the routine.
C26_SubroutineRegions ==
  file # None =>
    \A i \in 1..Len(file.subroutines) :
      LET r == file.subroutines[i]
      IN /\ r.declarations.source = FileLines(r.ast.spec.line_begin, r.ast.spec.line_end)
         /\ r.header.source = FileLines(r.ast.line_begin, r.ast.spec.line_begin - 1)
         /\ r.body.source = FileLines(r.ast.spec.line_end + 1, r.ast.body.line_end)
         /\ r.post.source = FileLines(r.ast.body.line_end + 1, r.ast.line_end)
         /\ Subroutine_source(r) = r.source
         /\ r.source = FileLines(r.ast.line_begin, r.ast.line_end)

(***************************************************************************)
(* The record of what a pass self_rebuilt                                       *)
(***************************************************************************)

\* The nodes whose visit a pass makes, from the value v down: a Transformer
\* does not visit what lies beneath a node of its mapping.
RECURSIVE VisitedOf(_, _)
RECURSIVE VisitedOfSeq(_, _)
VisitedOfSeq(q, nested) ==
  IF q = <<>> THEN {} ELSE VisitedOf(Head(q), nested) \cup VisitedOfSeq(Tail(q), nested)
VisitedOf(v, nested) ==
  IF IsNode(v)
  THEN {v} \cup (IF ~nested /\ v.id \in DOMAIN mapper THEN {}
                 ELSE VisitedOfSeq(Children(v), nested))
  ELSE IF IsSeqValue(v) THEN VisitedOfSeq(Items(v), nested)
  ELSE {}

\* The node the mapping calls for in the place of the node n: a copy of the
\* replacement, or for a sequence a copy of n itself.
StandsFor(n, obj) ==
  /\ IsNode(obj)
  /\ obj.id # n.id
  /\ Origin(obj) = IF IsIterableHandle(mapper[n.id]) THEN Origin(n)
                   ELSE Origin(mapper[n.id])

\* C27: after a Transformer or NestedTransformer pass that gave a tree, the
\* record `rebuilt` has for every node at which the pass applied the mapping
\* an entry under that node: None for a node the mapping drops, and otherwise
\* a new node, which is the one that stands in its place in the result when
\* the mapping has no other node; every key of the record is a node of the
\* IR passed in, and no entry gives a node for itself.
C27_RebuiltRecord ==
  (PassRun /\ ~IsRaise(result)) =>
    /\ \A n \in VisitedOf(tree, op = "NestedTransformer") :
         n.id \in DOMAIN mapper =>
           /\ n.id \in DOMAIN self_rebuilt
           /\ IF mapper[n.id] = None THEN self_rebuilt[n.id] = None
              ELSE StandsFor(n, self_rebuilt[n.id])
    /\ DOMAIN self_rebuilt \subseteq IdsOf(tree)
    /\ \A k \in DOMAIN self_rebuilt :
         self_rebuilt[k] = None \/ (IsNode(self_rebuilt[k]) /\ self_rebuilt[k].id # k)
    /\ \A n \in VisitedOf(tree, op = "NestedTransformer") :
         (KeysAre({n.id}) /\ mapper[n.id] # None) =>
           self_rebuilt[n.id] \in Range(NodesOf(result))

\* A pass has dropped one node and replaced another, and has recorded both
\* and the nodes it self_rebuilt around them.
C27_Witness ==
  /\ PassRun /\ ~IsRaise(result)
  /\ \E a, b \in DOMAIN mapper \cap DOMAIN self_rebuilt :
       /\ mapper[a] = None /\ self_rebuilt[a] = None
       /\ mapper[b] = StatementHandle /\ IsNode(self_rebuilt[b])
  /\ Cardinality(DOMAIN self_rebuilt) >= 3

(***************************************************************************)
(* Variable.children                                                       *)
(***************************************************************************)

Hashed(v) ==
  IsOperation(v) \/ IsLiteral(v) \/ IsVariable(v) \/ IsIndex(v) \/ IsRangeIndex(v)

\* C29: two expressions among Operation, Literal, Variable, Index and
\* RangeIndex that compare equal have the same hash, two ranges that are
\* equal through the rule for trivial ranges included.
C29_EqualHashesAgree ==
  (answer = PyTrue /\ Hashed(left) /\ Hashed(right)) => hash(left) = hash(right)

(***************************************************************************)
(* Entries of the mapping beneath a node mapped to a sequence              *)
(***************************************************************************)

\* The pass with the entry of d alone: d beneath unmapped nodes.
AloneUnder(d) == Transformer_visit([x \in {d} |-> mapper[x]], FALSE, tree)

\* C30: when a Transformer maps a node n to a sequence and a node d beneath
\* n is a key of the mapping too, the entry of d is applied in the result as
\* it is when n is not mapped: the result is, but for the two statements of
\* the sequences, the tree the pass gives for the entry of d alone, and a d
\* mapped to a sequence has the sequence at the front of its body.
C30_AppliedBeneathSplice ==
  op = "Transformer" =>
    \A k, d \in DOMAIN mapper :
      LET n == NodeOfOrigin(tree, k.obj)
          r == NodeOfOrigin(result, d.obj)
      IN (/\ k # d
          /\ mapper[k] = SpliceHandle
          /\ n \in Range(ReachedOf(tree))
          /\ n.cls = "Section"
          /\ d \in IdsOf(n.f.body)
          /\ ~IsRaise(AloneUnder(d))) =>
           /\ ~IsRaise(result)
           /\ WithoutSplice(Shape(result)) = WithoutSplice(Shape(AloneUnder(d)))
           /\ mapper[d] = SpliceHandle =>
                /\ IsNode(r)
                /\ Len(r.f.body.tuple) >= 2
                /\ SubSeq(r.f.body.tuple, 1, 2) = SpliceHandle.tuple

====
